---- MODULE Spec2Model ----
(***************************************************************************)
(* State-machine model of the two resource primitives of the playlist     *)
(* synthesis backend: the RateLimiter (bounded-concurrency task throttle)  *)
(* and the ApiCache (TTL / priority cache), both in                        *)
(* src/backend/utils/RateLimiter.js.                                       *)
(*                                                                         *)
(* SpecThrottle drives one RateLimiter through execute, task start, task   *)
(* success, task failure and abort.  SpecCache drives one ApiCache         *)
(* through set, get, del, clear and the passing of time, storing one      *)
(* value; SpecCacheSetGet does the same with two distinct values, so that  *)
(* the value a get returns can be told from the one stored before it.      *)
(*                                                                         *)
(* The playlist synthesis of src/backend/server.js is modelled beside      *)
(* them.  SpecClassify applies classifyCandidateByProximity and            *)
(* SpecAssemble the assembly (assemblePlaylistBySections, targetSize,      *)
(* finalPlaylist) to bounded arguments.  SpecAnalyze follows one POST      *)
(* /analyze request from its validation to its response, every await of a  *)
(* mining callback being a point where the other callbacks run;            *)
(* SpecValidate follows every request body up to the second upstream call. *)
(* SpecUpstream drives lastfmLimiter and spotifyLimiter with the calls of   *)
(* the mining callbacks of two requests, one of which may never be         *)
(* answered; SpecUpstreamFair adds the fairness of the event loop.         *)
(*                                                                         *)
(* SpecEra applies detectCulturalEra and SpecVibe inferVibe to bounded     *)
(* arguments; SpecSections applies assemblePlaylistBySections to small     *)
(* target sizes and SpecContext the contextual filter to one candidate.    *)
(* SpecMining follows nichePromises with three callbacks up to the dedup.  *)
(* SpecThrottleFair is the RateLimiter with no abort and a fair event      *)
(* loop; SpecCacheLru drives either ApiCache class of RateLimiter.js.      *)
(* SpecExplore follows exploreArtistNetworkViaLastfm over small graphs of   *)
(* similar artists, SpecPipelineThrottle is the fair RateLimiter running   *)
(* the task bodies server.js submits, and SpecSubgroups applies            *)
(* detectVibeSubgroupsByMetadata to bounded seed lists.                    *)
(***************************************************************************)
EXTENDS Integers, Sequences, FiniteSets, TLC

VARIABLES
    \* ---- RateLimiter ----
    concurrency,   \* this.concurrency
    maxQueue,      \* this.maxQueue
    active,        \* this.active
    queue,         \* this.queue: sequence of items {fn, resolve, reject}
    tstats,        \* this._stats = {executed, queued, failures}
    microtasks,    \* items shifted by _tryNext whose fn is not invoked yet
    running,       \* items whose fn was invoked and has not settled
    promise,       \* the promise returned by each execute call
    nextTask,      \* number of execute calls made so far
    invoked,       \* history: fn ids in the order they were invoked
    settleCalls,   \* history: resolve/reject calls made on each promise
    waited,        \* history: <<task, n>>: its execute call left the task waiting
                   \*          behind n earlier tasks
    tlast,         \* history: the last RateLimiter operation
    \* ---- ApiCache ----
    ttl,           \* this.ttl
    maxSize,       \* this.maxSize
    cache,         \* this.cache: Map in insertion order, key -> {value,t,priority}
    order,         \* this.order: access-order list of keys
    priorities,    \* this.priorities: Map key -> priority
    cstats,        \* this._stats = {hits, misses}
    now,           \* Date.now()
    clast,         \* history: the last ApiCache operation and its result
    variant,       \* which of the two ApiCache classes the object is of
    recent,        \* history: the stored keys, least recently accessed first
    \* ---- POST /analyze (one request) ----
    req,             \* the request: its access token and req.body.trackIds
    pc,              \* the await point the handler stands at
    uniqueTrackIds,  \* uniqueTrackIds
    seedTracks,      \* seedTracks
    uriSeen,         \* uriSeen
    candidateTracks, \* candidateTracks
    playlistVibe,    \* playlistVibe.mood
    topArtistIds,    \* topArtistIds
    relatedArtistSet, \* relatedArtistSet
    branches,        \* the async callbacks of the Promise.all being awaited
    finalSelection,  \* finalSelection
    res,             \* the response sent, if any
    called,          \* history: the upstream calls issued so far, by call site
    failed,          \* history: the call sites whose upstream call rejected
    mined,           \* history: candidateTracks as it was when mining ended
    \* ---- a pure function under test ----
    args,            \* its arguments
    result,          \* what it returned
    \* ---- lastfmLimiter and spotifyLimiter with the calls of the pipeline ----
    limiters,        \* the two RateLimiter instances, by service
    calls,           \* the upstream calls of the mining branches
    \* ---- exploreArtistNetworkViaLastfm ----
    seedNames,       \* seedTracks.map(t => t.artists[0].name)
    similarOf,       \* what artist.getsimilar answers, by artist name
    network,         \* network: the entries {name, level} recorded
    artistQueue,     \* queue: the {name, level} items still to visit
    visited,         \* visited: the names seen
    current,         \* the item taken by queue.shift(), while it is expanded
    searches,        \* the callbacks of searchPromises, each at its await or not
    epc,             \* where the while-loop stands
    enqueued,        \* history: every name put on the queue, in order
    dequeued         \* history: the level of every item shifted, in order

tvars == <<concurrency, maxQueue, active, queue, tstats, microtasks, running,
           promise, nextTask, invoked, settleCalls, waited, tlast>>
cvars == <<ttl, maxSize, cache, order, priorities, cstats, now, clast,
           variant, recent>>
avars == <<req, pc, uniqueTrackIds, seedTracks, uriSeen, candidateTracks,
           playlistVibe, topArtistIds, relatedArtistSet, branches,
           finalSelection, res, called, failed, mined>>
fvars == <<args, result>>
uvars == <<limiters, calls>>
nvars == <<seedNames, similarOf, network, artistQueue, visited, current,
           searches, epc, enqueued, dequeued>>
\* Everything outside the RateLimiter and the ApiCache of utils/RateLimiter.js.
svars == <<avars, fvars, uvars, nvars>>
vars == <<tvars, cvars, svars>>

\* ------------------------------------------------------------------ bounds
MaxTasks == 4
MaxConcurrency == 2
MaxQueueCap == 2
MaxTime == 2
MaxGets == 2
SetGetMaxTime == 1
SetGetMaxGets == 1

\* ------------------------------------------------------------- RateLimiter
Tasks == 1..MaxTasks

\* The outcome a task function produces when it succeeds / fails.
Result(fn) == <<"result", fn>>
TaskError(fn) == <<"error", fn>>
QueueFullError == <<"RateLimiter queue full", 0>>
AbortedError == <<"Aborted", 0>>

NoPromise == [st |-> "none", val |-> <<"none", 0>>]
Pending == [st |-> "pending", val |-> <<"none", 0>>]
Resolved(v) == [st |-> "resolved", val |-> v]
Rejected(e) == [st |-> "rejected", val |-> e]

\* A JS promise settles on the first resolve/reject call; later calls are ignored.
Settle(p, id, outcome) ==
    [p EXCEPT ![id] = IF p[id].st = "pending" THEN outcome ELSE p[id]]

\* The item {fn, resolve, reject} pushed by execute for its n-th call.
Item(n) == [fn |-> n, promise |-> n]

\* No response sent yet.
NoResponse == [status |-> 0, error |-> <<"none", "">>, tracks |-> <<>>]

\* No request being handled by POST /analyze.
AnalyzeIdle ==
    /\ req = [token |-> FALSE, trackIds |-> <<>>]
    /\ pc = "idle"
    /\ uniqueTrackIds = <<>>
    /\ seedTracks = <<>>
    /\ uriSeen = {}
    /\ candidateTracks = <<>>
    /\ playlistVibe = "neutral"
    /\ topArtistIds = <<>>
    /\ relatedArtistSet = {}
    /\ branches = <<>>
    /\ finalSelection = <<>>
    /\ res = NoResponse
    /\ called = {}
    /\ failed = {}
    /\ mined = <<>>

\* No pure function being applied.
FunctionIdle ==
    /\ args = <<>>
    /\ result = <<>>

\* The two limiters of server.js left out.
UpstreamIdle ==
    /\ limiters = <<>>
    /\ calls = <<>>

\* exploreArtistNetworkViaLastfm not called.
NetworkIdle ==
    /\ seedNames = <<>>
    /\ similarOf = <<>>
    /\ network = {}
    /\ artistQueue = <<>>
    /\ visited = {}
    /\ current = <<>>
    /\ searches = <<>>
    /\ epc = "idle"
    /\ enqueued = <<>>
    /\ dequeued = <<>>

\* The request handlers of server.js left untouched.
ServerIdle == AnalyzeIdle /\ FunctionIdle /\ UpstreamIdle /\ NetworkIdle

\* The RateLimiter left untouched while something else is driven.
ThrottleIdle ==
    /\ concurrency = 1
    /\ maxQueue = 1
    /\ active = 0
    /\ queue = <<>>
    /\ tstats = [executed |-> 0, queued |-> 0, failures |-> 0]
    /\ microtasks = <<>>
    /\ running = {}
    /\ promise = [t \in 1..MaxTasks |-> NoPromise]
    /\ nextTask = 0
    /\ invoked = <<>>
    /\ settleCalls = [t \in 1..MaxTasks |-> 0]
    /\ waited = {}
    /\ tlast = [op |-> "init", task |-> 0]

\* The ApiCache left untouched while the RateLimiter is driven.
CacheIdle ==
    /\ ttl = 1
    /\ maxSize = 1
    /\ cache = <<>>
    /\ order = <<>>
    /\ priorities = <<>>
    /\ cstats = [hits |-> 0, misses |-> 0]
    /\ now = 0
    /\ clast = [op |-> "init", key |-> <<>>, val |-> "null", prio |-> 0,
                evicted |-> <<>>, after |-> "none"]
    /\ variant = "priority"
    /\ recent = <<>>

\* constructor(concurrency, maxQueue)
ThrottleInit ==
    /\ concurrency \in 1..MaxConcurrency
    /\ maxQueue \in 1..MaxQueueCap
    /\ active = 0
    /\ queue = <<>>
    /\ tstats = [executed |-> 0, queued |-> 0, failures |-> 0]
    /\ microtasks = <<>>
    /\ running = {}
    /\ promise = [t \in Tasks |-> NoPromise]
    /\ nextTask = 0
    /\ invoked = <<>>
    /\ settleCalls = [t \in Tasks |-> 0]
    /\ waited = {}
    /\ tlast = [op |-> "init", task |-> 0]
    /\ CacheIdle
    /\ ServerIdle

\* A variant that takes the newest item (queue.pop()).
ShiftLifo(q) == [item |-> q[Len(q)], rest |-> SubSeq(q, 1, Len(q) - 1)]

\* queue.shift(): the item _tryNext takes, and what is left.
Shift(q) == [item |-> Head(q), rest |-> Tail(q)]

\* A variant that ignores the concurrency cap.
CanStartNoCap(a, q) == Len(q) > 0

\* The guard of _tryNext.
CanStart(a, q) == a < concurrency /\ Len(q) > 0

\* _tryNext() applied to (active a, queue q, _stats s, microtask list m):
\* the resulting [active, queue, stats, microtasks].
TryNext(a, q, s, m) ==
    IF CanStart(a, q)
    THEN [active |-> a + 1,
          queue |-> Shift(q).rest,
          stats |-> [s EXCEPT !.queued = Len(Shift(q).rest)],
          microtasks |-> Append(m, Shift(q).item)]
    ELSE [active |-> a, queue |-> q, stats |-> s, microtasks |-> m]

\* A variant that lets one task too many wait.
QueueFullOffByOne(q) == Len(q) > maxQueue

\* The queue-full test of execute.
QueueFull(q) == Len(q) >= maxQueue

\* execute(fn): the (nextTask+1)-th call.
Execute ==
    /\ nextTask < MaxTasks
    /\ LET n == nextTask + 1 IN
       /\ nextTask' = n
       /\ tlast' = [op |-> "execute", task |-> n]
       /\ IF QueueFull(queue)
          THEN /\ tstats' = [tstats EXCEPT !.failures = @ + 1]
               /\ promise' = [promise EXCEPT ![n] = Rejected(QueueFullError)]
               /\ settleCalls' = [settleCalls EXCEPT ![n] = @ + 1]
               /\ UNCHANGED <<active, queue, microtasks, waited>>
          ELSE LET q1 == Append(queue, Item(n))
                   s1 == [tstats EXCEPT !.queued = Len(q1)]
                   r == TryNext(active, q1, s1, microtasks)
               IN /\ active' = r.active
                  /\ queue' = r.queue
                  /\ tstats' = r.stats
                  /\ microtasks' = r.microtasks
                  /\ promise' = [promise EXCEPT ![n] = Pending]
                  /\ waited' = IF \E i \in 1..Len(r.queue) : r.queue[i] = Item(n)
                               THEN waited \cup {<<n, Len(r.queue) - 1>>}
                               ELSE waited
                  /\ UNCHANGED settleCalls
    /\ UNCHANGED <<concurrency, maxQueue, running, invoked, cvars, svars>>

\* The microtask Promise.resolve().then(() => item.fn()): the fn is invoked.
StartTask ==
    /\ Len(microtasks) > 0
    /\ LET item == Head(microtasks) IN
       /\ microtasks' = Tail(microtasks)
       /\ running' = running \cup {item}
       /\ invoked' = Append(invoked, item.fn)
       /\ tlast' = [op |-> "start", task |-> item.promise]
    /\ UNCHANGED <<concurrency, maxQueue, active, queue, tstats, promise,
                   nextTask, settleCalls, waited, cvars, svars>>

\* A variant that settles the promise of the previous submission.
SettledPromiseOther(item) == IF item.promise > 1 THEN item.promise - 1 ELSE item.promise

\* The promise the success handler resolves / the failure handler rejects.
SettledPromise(item) == item.promise

\* .then(result => {...}): the fn of a running item succeeded.
TaskSucceeds(item) ==
    /\ item \in running
    /\ running' = running \ {item}
    /\ LET r == TryNext(active - 1, queue,
                        [tstats EXCEPT !.executed = @ + 1], microtasks)
       IN /\ active' = r.active
          /\ queue' = r.queue
          /\ tstats' = r.stats
          /\ microtasks' = r.microtasks
    /\ promise' = Settle(promise, SettledPromise(item), Resolved(Result(item.fn)))
    /\ settleCalls' = [settleCalls EXCEPT ![SettledPromise(item)] = @ + 1]
    /\ tlast' = [op |-> "succeed", task |-> item.promise]
    /\ UNCHANGED <<concurrency, maxQueue, nextTask, invoked, waited, cvars, svars>>

\* A variant whose failure handler forgets this.active--.
ActiveAfterFailureLeak(a) == a

\* The active count the failure handler leaves before it calls _tryNext.
ActiveAfterFailure(a) == a - 1

\* .catch(err => {...}): the fn of a running item threw or rejected.
TaskFails(item) ==
    /\ item \in running
    /\ running' = running \ {item}
    /\ LET r == TryNext(ActiveAfterFailure(active), queue,
                        [tstats EXCEPT !.failures = @ + 1], microtasks)
       IN /\ active' = r.active
          /\ queue' = r.queue
          /\ tstats' = r.stats
          /\ microtasks' = r.microtasks
    /\ promise' = Settle(promise, SettledPromise(item), Rejected(TaskError(item.fn)))
    /\ settleCalls' = [settleCalls EXCEPT ![SettledPromise(item)] = @ + 1]
    /\ tlast' = [op |-> "fail", task |-> item.promise]
    /\ UNCHANGED <<concurrency, maxQueue, nextTask, invoked, waited, cvars, svars>>

\* A variant of abort() that rejects the waiting tasks and keeps them queued.
QueueAfterAbortKept(q) == q

\* The queue abort() leaves behind.
QueueAfterAbort(q) == <<>>

RECURSIVE RejectAll(_, _, _)
\* this.queue.forEach(({reject}) => reject(new Error('Aborted')))
RejectAll(p, q, i) ==
    IF i > Len(q) THEN p
    ELSE RejectAll(Settle(p, q[i].promise, Rejected(AbortedError)), q, i + 1)

\* abort(): _stats is left as it is.
Abort ==
    /\ promise' = RejectAll(promise, queue, 1)
    /\ settleCalls' = [t \in Tasks |->
                         settleCalls[t]
                         + Cardinality({i \in 1..Len(queue) : queue[i].promise = t})]
    /\ queue' = QueueAfterAbort(queue)
    /\ tlast' = [op |-> "abort", task |-> 0]
    /\ UNCHANGED <<concurrency, maxQueue, active, tstats, microtasks, running,
                   nextTask, invoked, waited, cvars, svars>>

ThrottleNext ==
    \/ Execute
    \/ StartTask
    \/ \E item \in running : TaskSucceeds(item)
    \/ \E item \in running : TaskFails(item)
    \/ Abort

\* ---------------------------------------------------------------- ApiCache
\* Cache keys are strings; a key is modelled by the sequence of its parts, and
\* key.includes(s) by s being one of the parts.
Keys == {<<"audio_features", "a">>, <<"lastfm_tags", "b">>, <<"similar", "c">>}
Values == {"v1", "v2"}
Null == "null"
\* The priority argument of set, when one is given.
Priorities == {1, 3, 4}
MaxSizes == {1, 2}
Ttls == {1}

Includes(key, s) == \E i \in 1..Len(key) : key[i] = s

\* detectPriority(key)
DetectPriority(key) ==
    IF Includes(key, "spotify_features") \/ Includes(key, "audio_features") THEN 1
    ELSE IF Includes(key, "lastfm_tags") \/ Includes(key, "lastfm_similar") THEN 2
    ELSE IF Includes(key, "artist_info") \/ Includes(key, "album_info") THEN 3
    ELSE IF Includes(key, "track_info") THEN 2
    ELSE 3

\* The three structures of the cache, as one value.
CacheState == [cache |-> cache, order |-> order, priorities |-> priorities]

\* Map.get(key) on a Map kept as a sequence of entries: the entries with the key.
EntriesOf(m, key) == SelectSeq(m, LAMBDA e : e.key = key)
Has(m, key) == Len(EntriesOf(m, key)) > 0
Lookup(m, key) == EntriesOf(m, key)[1]
\* Map.delete(key)
MapDelete(m, key) == SelectSeq(m, LAMBDA e : e.key # key)
\* Map.set(key, entry) for a key the Map does not hold, or holds: the position
\* of a held key is kept, a new key goes last.
MapSet(m, key, entry) ==
    IF Has(m, key)
    THEN [i \in 1..Len(m) |-> IF m[i].key = key THEN entry ELSE m[i]]
    ELSE Append(m, entry)
\* this.order.filter(k => k !== key)
OrderWithout(o, key) == SelectSeq(o, LAMBDA k : k # key)

\* A variant of del that leaves the key in this.priorities.
CacheDelKeepsPriority(c, key) ==
    [cache |-> MapDelete(c.cache, key),
     order |-> OrderWithout(c.order, key),
     priorities |-> c.priorities]

\* del(key)
CacheDel(c, key) ==
    [cache |-> MapDelete(c.cache, key),
     order |-> OrderWithout(c.order, key),
     priorities |-> MapDelete(c.priorities, key)]

\* this.priorities.get(key) || 3
EvictionPriority(prios, key) ==
    IF Has(prios, key) /\ Lookup(prios, key).priority # 0
    THEN Lookup(prios, key).priority
    ELSE 3

\* let lowestPriority = 3
InitialLowestPriority == 3

\* A variant of the loop body that compares priorities with >=.
EvictStepGe(acc, e, pr) ==
    IF pr >= acc.lowestPriority
    THEN [lowestPriority |-> pr, key |-> e.key, oldestTime |-> e.t, found |-> TRUE]
    ELSE acc

\* One turn of the for-loop of evictLowPriority: entry e, of priority pr,
\* against acc = [lowestPriority, oldestKey, oldestTime, found]; found is
\* FALSE while oldestKey is null.
EvictStep(acc, e, pr) ==
    IF pr > acc.lowestPriority
    THEN [lowestPriority |-> pr, key |-> e.key, oldestTime |-> e.t, found |-> TRUE]
    ELSE IF pr = acc.lowestPriority /\ e.t < acc.oldestTime
    THEN [lowestPriority |-> acc.lowestPriority, key |-> e.key,
          oldestTime |-> e.t, found |-> TRUE]
    ELSE acc

RECURSIVE EvictScan(_, _, _)
\* The for-loop of evictLowPriority over this.cache.entries(), from entry i on.
EvictScan(c, i, acc) ==
    IF i > Len(c.cache) THEN acc
    ELSE EvictScan(c, i + 1,
             EvictStep(acc, c.cache[i], EvictionPriority(c.priorities, c.cache[i].key)))

\* The key evictLowPriority selects by priority at clock reading tnow:
\* [found, key, ...]; found is FALSE when oldestKey stays null.
EvictVictim(c, tnow) ==
    EvictScan(c, 1,
        [lowestPriority |-> InitialLowestPriority, key |-> <<>>,
         oldestTime |-> tnow, found |-> FALSE])

\* A variant that evicts nothing when no key is selected by priority.
EvictNoFallback(c, v) ==
    IF v.found THEN [state |-> CacheDel(c, v.key), evicted |-> <<v.key>>]
    ELSE [state |-> c, evicted |-> <<>>]

\* The end of evictLowPriority, v being the key selected by priority: the
\* state left and the keys removed.
EvictSelected(c, v) ==
    IF v.found
    THEN [state |-> CacheDel(c, v.key), evicted |-> <<v.key>>]
    ELSE \* Fallback: const oldKey = this.order.shift()
         [state |-> [cache |-> MapDelete(c.cache, Head(c.order)),
                     order |-> Tail(c.order),
                     priorities |-> MapDelete(c.priorities, Head(c.order))],
          evicted |-> <<Head(c.order)>>]

\* evictLowPriority() at clock reading tnow.
EvictLowPriority(c, tnow) == EvictSelected(c, EvictVictim(c, tnow))

\* if (this.order.length > this.maxSize)
NeedsEviction(c) == Len(c.order) > maxSize

\* The end of set, c being the cache with the new entry stored.
EvictIfOver(c, tevict) ==
    IF NeedsEviction(c)
    THEN EvictLowPriority(c, tevict)
    ELSE [state |-> c, evicted |-> <<>>]

\* Lines 91-93 of set, c being the cache after this.del(key).
CacheStore(c, key, value, pr, tset) ==
    [cache |-> MapSet(c.cache, key,
                      [key |-> key, value |-> value, t |-> tset, priority |-> pr]),
     priorities |-> MapSet(c.priorities, key, [key |-> key, priority |-> pr]),
     order |-> Append(c.order, key)]

\* set(key, value, priority) with the priority already resolved, the clock
\* reading tset at line 91 and tevict at line 137.
CacheSet(c, key, value, pr, tset, tevict) ==
    EvictIfOver(CacheStore(CacheDel(c, key), key, value, pr, tset), tevict)

\* A variant in which entries never expire.
ExpiredNever(e, tnow) == FALSE

\* Date.now() - e.t > this.ttl
Expired(e, tnow) == tnow - e.t > ttl

\* constructor(ttl, maxSize) of either class
CacheConstructed ==
    /\ ttl \in Ttls
    /\ maxSize \in MaxSizes
    /\ cache = <<>>
    /\ order = <<>>
    /\ priorities = <<>>
    /\ cstats = [hits |-> 0, misses |-> 0]
    /\ now = 0
    /\ clast = [op |-> "init", key |-> <<>>, val |-> Null, prio |-> 0,
                evicted |-> <<>>, after |-> "none"]
    /\ concurrency = 1
    /\ maxQueue = 1
    /\ active = 0
    /\ queue = <<>>
    /\ tstats = [executed |-> 0, queued |-> 0, failures |-> 0]
    /\ microtasks = <<>>
    /\ running = {}
    /\ promise = [t \in Tasks |-> NoPromise]
    /\ nextTask = 0
    /\ invoked = <<>>
    /\ settleCalls = [t \in Tasks |-> 0]
    /\ waited = {}
    /\ tlast = [op |-> "init", task |-> 0]
    /\ recent = <<>>
    /\ ServerIdle

\* The ApiCache with priorities (lines 62-182), just constructed.
CacheInit == variant = "priority" /\ CacheConstructed

\* A variant of get that leaves this.order as it is on a hit.
TouchKept(o, key) == o

\* this.order = this.order.filter(k => k !== key); this.order.push(key)
Touch(o, key) == Append(OrderWithout(o, key), key)

\* History: the keys by last access after key was set or hit and the keys
\* of evicted were removed.
Accessed(r, key, evicted) ==
    SelectSeq(Append(SelectSeq(r, LAMBDA k : k # key), key),
              LAMBDA k : \A i \in 1..Len(evicted) : evicted[i] # k)

\* The test of set that calls evictLowPriority, on the order list as it is
\* before set(key, ...) runs.
Overflows(o, key) == Len(OrderWithout(o, key)) + 1 > maxSize

\* set(key, value, priority = null); when it evicts, the clock may advance by
\* d between the Date.now() of set and the Date.now() of evictLowPriority.
Set(key, value, given, p, d) ==
    /\ now + d <= MaxTime
    /\ d = 0 \/ Overflows(order, key)
    /\ LET pr == IF given THEN p ELSE DetectPriority(key) IN
       \E r \in {CacheSet(CacheState, key, value, pr, now, now + d)} :
          /\ cache' = r.state.cache
          /\ order' = r.state.order
          /\ priorities' = r.state.priorities
          /\ clast' = [op |-> "set", key |-> key, val |-> value, prio |-> pr,
                       evicted |-> r.evicted,
                       after |-> "none"]
          /\ recent' = Accessed(recent, key, r.evicted)
    /\ now' = now + d
    /\ UNCHANGED <<ttl, maxSize, cstats, variant, tvars, svars>>

\* History: whether get(key) directly follows a set of the same key, and
\* whether that set evicted an entry.
AfterSet(key) ==
    IF clast.op = "set" /\ clast.key = key
    THEN (IF clast.evicted # <<>> THEN "set-evicting" ELSE "set")
    ELSE "none"

\* get(key)
Get(key) ==
    /\ cstats.hits + cstats.misses < MaxGets
    /\ IF ~Has(cache, key)
       THEN /\ cstats' = [cstats EXCEPT !.misses = @ + 1]
            /\ clast' = [op |-> "get", key |-> key, val |-> Null, prio |-> 0,
                         evicted |-> <<>>, after |-> AfterSet(key)]
            /\ UNCHANGED <<cache, order, priorities, recent>>
       ELSE IF Expired(Lookup(cache, key), now)
       THEN /\ \E c \in {CacheDel(CacheState, key)} :
                  /\ cache' = c.cache
                  /\ order' = c.order
                  /\ priorities' = c.priorities
            /\ cstats' = [cstats EXCEPT !.misses = @ + 1]
            /\ clast' = [op |-> "get", key |-> key, val |-> Null, prio |-> 0,
                         evicted |-> <<key>>, after |-> AfterSet(key)]
            /\ recent' = OrderWithout(recent, key)
       ELSE /\ order' = Touch(order, key)
            /\ recent' = Accessed(recent, key, <<>>)
            /\ cstats' = [cstats EXCEPT !.hits = @ + 1]
            /\ clast' = [op |-> "get", key |-> key,
                         val |-> Lookup(cache, key).value, prio |-> 0,
                         evicted |-> <<>>, after |-> AfterSet(key)]
            /\ UNCHANGED <<cache, priorities>>
    /\ UNCHANGED <<ttl, maxSize, now, variant, tvars, svars>>

\* del(key)
Del(key) ==
    /\ \E c \in {CacheDel(CacheState, key)} :
          /\ cache' = c.cache
          /\ order' = c.order
          /\ priorities' = c.priorities
    /\ clast' = [op |-> "del", key |-> key, val |-> Null, prio |-> 0,
                 evicted |-> <<>>, after |-> "none"]
    /\ recent' = OrderWithout(recent, key)
    /\ UNCHANGED <<ttl, maxSize, cstats, now, variant, tvars, svars>>

\* clear()
Clear ==
    /\ cache' = <<>>
    /\ order' = <<>>
    /\ priorities' = <<>>
    /\ cstats' = [hits |-> 0, misses |-> 0]
    /\ clast' = [op |-> "clear", key |-> <<>>, val |-> Null, prio |-> 0,
                 evicted |-> <<>>, after |-> "none"]
    /\ recent' = <<>>
    /\ UNCHANGED <<ttl, maxSize, now, variant, tvars, svars>>

\* Time passes between two operations.
Tick ==
    /\ now < MaxTime
    /\ now' = now + 1
    /\ clast' = [op |-> "tick", key |-> <<>>, val |-> Null, prio |-> 0,
                 evicted |-> <<>>, after |-> "none"]
    /\ UNCHANGED <<ttl, maxSize, cache, order, priorities, cstats, variant,
                   recent, tvars, svars>>

\* The cache driven with one value.
CacheNext ==
    \/ \E key \in Keys, p \in Priorities, d \in {0, 1} :
          Set(key, "v1", TRUE, p, d)
    \/ \E key \in Keys, d \in {0, 1} :
          Set(key, "v1", FALSE, 0, d)
    \/ \E key \in Keys : Get(key)
    \/ \E key \in Keys : Del(key)
    \/ Clear
    \/ Tick

\* The cache driven with two values, over a shorter time and fewer gets.
CacheSetGetNext ==
    \/ \E key \in Keys, value \in Values, p \in Priorities, d \in {0, 1} :
          Set(key, value, TRUE, p, d) /\ now' <= SetGetMaxTime
    \/ \E key \in Keys, value \in Values, d \in {0, 1} :
          Set(key, value, FALSE, 0, d) /\ now' <= SetGetMaxTime
    \/ \E key \in Keys :
          Get(key) /\ cstats'.hits + cstats'.misses <= SetGetMaxGets
    \/ \E key \in Keys : Del(key)
    \/ Clear
    \/ Tick /\ now' <= SetGetMaxTime

\* ------------------------------------------------- RateLimiter: properties
\* The promise ids of a sequence of items.
PromiseIds(q) == {q[i].promise : i \in 1..Len(q)}
Submitted == 1..nextTask
IsAborted(t) == promise[t] = Rejected(AbortedError)
IsQueueFullRejected(t) == promise[t] = Rejected(QueueFullError)
\* The fn ids in the order their slot was taken: invoked, then about to be.
StartedSeq == invoked \o [i \in 1..Len(microtasks) |-> microtasks[i].fn]
StartedIds == {StartedSeq[i] : i \in 1..Len(StartedSeq)}
HasWaited(t) == \E k \in 0..MaxTasks : <<t, k>> \in waited
Ascending(q) == \A i, j \in 1..Len(q) : i < j => q[i] < q[j]

\* C1: on a throttle constructed with concurrency C, after any sequence of
\* execute calls, completions (success or failure) and aborts, the number of
\* tasks running at the same time (slots taken, functions in flight) never
\* exceeds C.
C1_RunningNeverExceedsConcurrency ==
    /\ active <= concurrency
    /\ Cardinality(running) + Len(microtasks) <= concurrency

\* C1 witness: more tasks were issued than there are slots, an abort happened,
\* every slot is taken by an in-flight function and a task is waiting.
C1_Witness ==
    /\ Cardinality(running) = concurrency
    /\ Len(queue) > 0
    /\ \E t \in Submitted : IsAborted(t)

\* C2: an execute call made while maxQueue tasks are waiting is rejected at
\* once with the queue-full error, its function is never invoked and the
\* waiting queue is left as it was; so the waiting queue never holds more than
\* maxQueue tasks.
C2_QueueFullRejectsImmediately ==
    /\ [](Len(queue) <= maxQueue)
    /\ [](\A t \in Submitted :
            IsQueueFullRejected(t) =>
                t \notin StartedIds /\ t \notin PromiseIds(queue)
                /\ \A item \in running : item.fn # t)
    /\ [][(nextTask' = nextTask + 1 /\ Len(queue) >= maxQueue) =>
            /\ promise'[nextTask'] = Rejected(QueueFullError)
            /\ queue' = queue
            /\ microtasks' = microtasks
            /\ running' = running
            /\ active' = active]_vars

\* C2 witness: a call was rejected with queue-full while the queue is full.
C2_Witness ==
    /\ Len(queue) = maxQueue
    /\ tlast.op = "execute"
    /\ IsQueueFullRejected(tlast.task)

\* C3: the promise of every accepted task settles at most once and only with
\* that task's own outcome: its result once its function ran and succeeded,
\* its error once its function ran and failed, or the abort error while it was
\* still waiting; a task rejected by abort is never started afterwards, and a
\* task whose promise is pending is waiting or in flight.
C3_PromiseSettlesOnceWithOwnOutcome ==
    \A t \in Submitted :
        \/ IsQueueFullRejected(t)
        \/ /\ settleCalls[t] <= 1
           /\ (promise[t].st = "pending") = (settleCalls[t] = 0)
           /\ promise[t].st = "pending" =>
                \/ t \in PromiseIds(queue)
                \/ t \in PromiseIds(microtasks)
                \/ \E item \in running : item.promise = t
           /\ promise[t].st = "resolved" =>
                promise[t].val = Result(t) /\ t \in StartedIds
           /\ promise[t].st = "rejected" =>
                \/ promise[t].val = TaskError(t) /\ t \in StartedIds
                \/ /\ IsAborted(t)
                   /\ t \notin StartedIds
                   /\ t \notin PromiseIds(queue)
                   /\ \A item \in running : item.fn # t

\* C3 witness: one task resolved, one failed, one was aborted while waiting.
C3_Witness ==
    \E a, b, c \in Submitted :
        /\ promise[a] = Resolved(Result(a))
        /\ promise[b] = Rejected(TaskError(b))
        /\ IsAborted(c)

\* C4: tasks start in submission order: the started tasks are in ascending
\* submission order, and a task that is still waiting was submitted after
\* every task that has started (so of two tasks that waited together the
\* earlier one starts first).
C4_WaitingTasksStartFifo ==
    /\ Ascending(StartedSeq)
    /\ Ascending([i \in 1..Len(queue) |-> queue[i].fn])
    /\ \A w \in PromiseIds(queue) : \A b \in StartedIds : b < w

\* C4 witness: two tasks that waited in the queue together have both started.
C4_Witness ==
    \E a, b \in Submitted :
        /\ a < b
        /\ HasWaited(a)
        /\ \E k \in 1..MaxTasks : <<b, k>> \in waited
        /\ a \in StartedIds /\ b \in StartedIds

\* C5: when a running task fails, its own promise and no other is rejected
\* (with its own error), failures grows by exactly one and executed stays,
\* its slot is released and the next waiting task, if any, takes it; all other
\* running tasks stay in flight.
C5_FailureIsIsolated ==
    [][\A item \in running :
        (tlast' = [op |-> "fail", task |-> item.promise] /\ item \notin running') =>
            /\ promise'[item.promise] = Rejected(TaskError(item.fn))
            /\ \A u \in Tasks : u # item.promise => promise'[u] = promise[u]
            /\ tstats'.failures = tstats.failures + 1
            /\ tstats'.executed = tstats.executed
            /\ running' = running \ {item}
            /\ IF Len(queue) > 0
               THEN /\ microtasks' = Append(microtasks, Head(queue))
                    /\ queue' = Tail(queue)
                    /\ active' = active
               ELSE /\ microtasks' = microtasks
                    /\ queue' = queue
                    /\ active' = active - 1]_vars

\* C5 witness: a task failed while a sibling was in flight and another was
\* waiting; the waiting one took the slot and the sibling later resolved.
C5_Witness ==
    \E a, b, c \in Submitted :
        /\ promise[a] = Rejected(TaskError(a))
        /\ promise[b] = Resolved(Result(b))
        /\ HasWaited(c) /\ c \in StartedIds
        /\ a < c /\ b < c

\* C6: abort() rejects the promise of every waiting task and empties the
\* queue, leaves the running count, the in-flight tasks and their promises
\* as they were; a task submitted right after abort is accepted and takes a
\* slot if one is free, else waits.
C6_AbortOnlyClearsQueue ==
    /\ [][(tlast'.op = "abort") =>
            /\ \A t \in PromiseIds(queue) : promise'[t] = Rejected(AbortedError)
            /\ \A t \in Tasks \ PromiseIds(queue) : promise'[t] = promise[t]
            /\ queue' = <<>>
            /\ active' = active
            /\ running' = running
            /\ microtasks' = microtasks]_vars
    /\ [][(tlast.op = "abort" /\ nextTask' = nextTask + 1) =>
            /\ promise'[nextTask'] = Pending
            /\ IF active < concurrency
               THEN microtasks' = Append(microtasks, Item(nextTask')) /\ queue' = <<>>
               ELSE microtasks' = microtasks /\ queue' = <<Item(nextTask')>>]_vars

\* C6 witness: a waiting task was aborted while another was in flight; the
\* in-flight one and a task submitted after the abort both resolved.
C6_Witness ==
    \E a, b, c \in Submitted :
        /\ a < b /\ b < c
        /\ promise[a] = Resolved(Result(a))
        /\ IsAborted(b)
        /\ promise[c] = Resolved(Result(c))

\* ---------------------------------------------------- ApiCache: properties
CacheKeys(m) == {m[i].key : i \in 1..Len(m)}
\* How many entries of the Map hold the key.
CountKey(m, key) == Cardinality({i \in 1..Len(m) : m[i].key = key})
InSeq(q, x) == \E i \in 1..Len(q) : q[i] = x
\* The entries stored beside the key.
OtherEntries(m, key) == {m[i] : i \in {j \in 1..Len(m) : m[j].key # key}}

\* C7 as stated: in any cache state, set(k,v) directly followed by get(k),
\* with no time advance, returns v and k is counted once in the cache size.
C7_SetThenGetReturnsValue ==
    [][(clast.op = "set" /\ clast'.op = "get" /\ clast'.key = clast.key
        /\ now' = now) =>
            /\ clast'.val = clast.val
            /\ CountKey(cache', clast.key) = 1]_vars

\* C7 amended: set(k,v) directly followed by get(k) returns v and k is counted
\* once in the cache size, unless that set's own eviction removed k, and then
\* get(k) returns null and k is not stored.  The set removes k itself only
\* when it overflowed the cache and k's priority number is at least 3 and
\* strictly larger than that of every other stored entry: always when it is
\* above 3, and at exactly 3 only if the clock advanced inside set.
C7_SetThenGetReturnsValueUnlessSelfEvicted ==
    /\ [][(clast.op = "set" /\ clast'.op = "get" /\ clast'.key = clast.key
           /\ now' = now) =>
            IF InSeq(clast.evicted, clast.key)
            THEN clast'.val = Null /\ CountKey(cache', clast.key) = 0
            ELSE clast'.val = clast.val /\ CountKey(cache', clast.key) = 1]_vars
    /\ [][(clast'.op = "set") =>
            LET k == clast'.key
                pr == clast'.prio
                others == OtherEntries(cache, k)
                over == Cardinality(others) + 1 > maxSize
                largest == \A e \in others : e.priority < pr
            IN /\ InSeq(clast'.evicted, k) => over /\ pr >= 3 /\ largest
               /\ (InSeq(clast'.evicted, k) /\ pr = 3) => now' > now
               /\ (over /\ pr > 3 /\ largest) => clast'.evicted = <<k>>
               /\ ~InSeq(clast'.evicted, k) =>
                     /\ CountKey(cache', k) = 1
                     /\ Lookup(cache', k).value = clast'.val]_vars

\* C7 witness: a set that overflowed the cache and evicted another entry was
\* directly followed by a get of the same key, which returned the value set.
C7_Witness ==
    /\ clast.op = "get"
    /\ clast.after = "set-evicting"
    /\ clast.val = "v2"
    /\ maxSize = 2
    /\ Len(cache) = maxSize

\* C8: get(k) never returns a value older than ttl (now - insertedAt > ttl),
\* whatever gets hit before: a hit leaves the insertion time as set wrote it,
\* and only set(k) writes it; a get on an expired entry returns null, removes
\* the entry from the three structures and counts exactly one miss.
C8_GetNeverReturnsExpired ==
    /\ [][(clast'.op = "get") =>
            LET k == clast'.key IN
            /\ (Has(cache, k) /\ now - Lookup(cache, k).t > ttl) =>
                  /\ clast'.val = Null
                  /\ ~Has(cache', k)
                  /\ ~InSeq(order', k)
                  /\ ~Has(priorities', k)
                  /\ cstats'.misses = cstats.misses + 1
                  /\ cstats'.hits = cstats.hits
            /\ clast'.val # Null =>
                  /\ Has(cache, k)
                  /\ now - Lookup(cache, k).t <= ttl
                  /\ clast'.val = Lookup(cache, k).value
                  /\ cstats'.hits = cstats.hits + 1
                  /\ cstats'.misses = cstats.misses]_vars
    /\ [][\A k \in CacheKeys(cache') :
            IF clast'.op = "set" /\ clast'.key = k
            THEN Lookup(cache', k).t = now
            ELSE Has(cache, k) /\ Lookup(cache', k).t = Lookup(cache, k).t]_vars

\* C8 witness: after at least one hit, a get found an entry older than ttl,
\* returned null and removed it.
C8_Witness ==
    /\ clast.op = "get"
    /\ clast.val = Null
    /\ clast.evicted = <<clast.key>>
    /\ cstats.hits >= 1
    /\ cstats.misses = 1
    /\ maxSize = 1

\* C9: after any sequence of set, get, del and clear, with any priorities and
\* time advances, the cache never stores more than maxSize entries.
C9_SizeNeverExceedsMaxSize ==
    /\ Len(cache) <= maxSize
    /\ Len(order) <= maxSize
    /\ Len(priorities) <= maxSize
    /\ Cardinality(CacheKeys(cache)) = Len(cache)

\* C9 witness: a set of one more key than fits was answered by an eviction
\* through the LRU fallback, and the cache is full.
C9_Witness ==
    /\ clast.op = "set"
    /\ clast.evicted # <<>>
    /\ clast.prio < 3
    /\ maxSize = 2
    /\ Len(cache) = maxSize

\* The entries the rule "largest priority number, then oldest insertion time"
\* selects among a set of entries.
LargestPriorityOldest(stored) ==
    {v \in stored : \A e \in stored :
        \/ e.priority < v.priority
        \/ e.priority = v.priority /\ e.t >= v.t}

\* C10 as stated: when a set makes the number of entries exceed maxSize,
\* exactly one entry is removed, and it is the entry with the numerically
\* largest priority among all stored entries, the oldest insertion time
\* deciding among equal priorities.  It is stated for the sets in which the
\* rule does not select the entry just written, where it cannot be in
\* conflict with set(k,v) keeping k.
C10_EvictsLargestPriorityOldest ==
    [][(clast'.op = "set"
        /\ Cardinality(OtherEntries(cache, clast'.key)) + 1 > maxSize) =>
            LET k == clast'.key
                stored == OtherEntries(cache, k)
                              \cup {[key |-> k, value |-> clast'.val, t |-> now,
                                     priority |-> clast'.prio]}
                selected == LargestPriorityOldest(stored)
            IN (\A v \in selected : v.key # k) =>
                  /\ Len(clast'.evicted) = 1
                  /\ \E v \in selected : v.key = clast'.evicted[1]]_vars

\* ---------------------------------------------------------- specifications
SpecThrottle == ThrottleInit /\ [][ThrottleNext]_vars
SpecCache == CacheInit /\ [][CacheNext]_vars
SpecCacheSetGet == CacheInit /\ [][CacheSetGetNext]_vars

\* ------------------------------------------------------------ server.js
\* Everything of utils/RateLimiter.js left untouched.
UtilsIdle == ThrottleIdle /\ CacheIdle

Min(a, b) == IF a < b THEN a ELSE b
Max(a, b) == IF a > b THEN a ELSE b

\* Math.round(p / q) for p >= 0, q > 0: halves round up.
Round(p, q) == (2 * p + q) \div (2 * q)

\* arr.sort((a, b) => key(b) - key(a)): a stable sort by descending key, the
\* keys given as a sequence k beside the array s.
SortDescBy(s, k) ==
    LET pos(i) == 1 + Cardinality({j \in 1..Len(s) :
                                     k[j] > k[i] \/ (k[j] = k[i] /\ j < i)})
    IN [p \in 1..Len(s) |-> s[CHOOSE i \in 1..Len(s) : pos(i) = p]]

\* The elements of a sequence, as a set.
Range(s) == {s[i] : i \in 1..Len(s)}

\* ------------------------------------------- classifyCandidateByProximity
\* Artist ids; NoId is an artist object without an id.
NoId == ""
ArtistIds == {"A1", "A2", "A3"}

\* (track.artists || []).map(a => a.id).filter(Boolean)
TrackArtistIds(artists) == {artists[i] : i \in 1..Len(artists)} \ {NoId}

\* seedTracks.some(s => s.artists.some(sa => trackArtistIds.includes(sa.id)))
MatchesSeedArtist(ids, seedArtists) ==
    \E i \in 1..Len(seedArtists) :
        \E j \in 1..Len(seedArtists[i]) : seedArtists[i][j] \in ids

\* trackArtistIds.some(id => topArtistIds.includes(id))
MatchesTopArtist(ids, top) == \E id \in ids : id \in Range(top)

\* trackArtistIds.some(id => relatedArtistSet.has(id))
MatchesRelated(ids, related) == \E id \in ids : id \in related

\* A variant that tests the taste profile before the seed artists.
ClassifyTopFirst(artists, seedArtists, top, related) ==
    LET ids == TrackArtistIds(artists) IN
    IF MatchesTopArtist(ids, top) THEN [circle |-> 2, weight |-> 115]
    ELSE IF MatchesSeedArtist(ids, seedArtists) THEN [circle |-> 1, weight |-> 130]
    ELSE IF MatchesRelated(ids, related) THEN [circle |-> 3, weight |-> 108]
    ELSE [circle |-> 4, weight |-> 100]

\* classifyCandidateByProximity(track, seedTracks, topArtistIds, relatedArtistSet),
\* on the artist ids of the track and of each seed; weight in hundredths.
ClassifyCandidateByProximity(artists, seedArtists, top, related) ==
    LET ids == TrackArtistIds(artists) IN
    IF MatchesSeedArtist(ids, seedArtists) THEN [circle |-> 1, weight |-> 130]
    ELSE IF MatchesTopArtist(ids, top) THEN [circle |-> 2, weight |-> 115]
    ELSE IF MatchesRelated(ids, related) THEN [circle |-> 3, weight |-> 108]
    ELSE [circle |-> 4, weight |-> 100]

\* The artist lists a track or a seed may carry.
ArtistLists ==
    {<<>>} \cup {<<a>> : a \in ArtistIds \cup {NoId}}
           \cup {<<a, b>> : a \in ArtistIds \cup {NoId}, b \in ArtistIds}
SeedArtistLists == {<<>>, <<<<"A1">>>>, <<<<"A1", "A2">>>>, <<<<NoId>>, <<"A2">>>>}
TopArtistLists == {<<>>, <<"A1">>, <<"A2">>, <<"A3">>, <<"A2", "A3">>}
RelatedArtistSets == {{}, {"A1"}, {"A3"}, {"A2", "A3"}}

ClassifyInit ==
    /\ args \in [track : ArtistLists, seedTracks : SeedArtistLists,
                 topArtistIds : TopArtistLists, relatedArtistSet : RelatedArtistSets]
    /\ result = <<>>
    /\ UtilsIdle /\ AnalyzeIdle /\ UpstreamIdle /\ NetworkIdle

\* One call of classifyCandidateByProximity; result keeps every value returned.
Classify ==
    /\ Len(result) < 2
    /\ result' = Append(result,
                        ClassifyCandidateByProximity(args.track, args.seedTracks,
                            args.topArtistIds, args.relatedArtistSet))
    /\ UNCHANGED <<args, tvars, cvars, nvars, avars, uvars>>

ClassifyNext == Classify

SpecClassify == ClassifyInit /\ [][ClassifyNext]_vars

\* --------------------------------------------- assemblePlaylistBySections
\* A vibe subgroup is [id, weight]; its weight count/total is kept as the seed
\* count of the subgroup, every weight over the same denominator.
\* A candidate is a record with the fields uri, subgroupId (_subgroupId),
\* finalScore and similarity, among others.

\* arr.slice(0, end)
SliceTo(s, end) ==
    IF end >= 0 THEN SubSeq(s, 1, Min(end, Len(s)))
    ELSE SubSeq(s, 1, Max(0, Len(s) + end))

RECURSIVE SumSeq(_)
\* arr.reduce((s, x) => s + x, 0)
SumSeq(s) == IF s = <<>> THEN 0 ELSE Head(s) + SumSeq(Tail(s))

\* (b.finalScore || b.similarity || 0)
ScoreKey(c) == IF c.finalScore # 0 THEN c.finalScore ELSE c.similarity

\* arr.sort((a,b) => (b.finalScore||b.similarity||0) - (a.finalScore||a.similarity||0))
SortByScore(cs) == SortDescBy(cs, [i \in 1..Len(cs) |-> ScoreKey(cs[i])])

\* byGroup.get(id) after the sort of each group
PoolOf(candidates, id) ==
    SortByScore(SelectSeq(candidates, LAMBDA c : c.subgroupId = id))

\* vibeSubgroups.reduce((s,g) => s + (g.weight || 0), 0) || 1
TotalWeight(vibeSubgroups) ==
    LET t == SumSeq([i \in 1..Len(vibeSubgroups) |-> vibeSubgroups[i].weight])
    IN IF t = 0 THEN 1 ELSE t

\* A variant of the first quota without the floor of 1.
FirstQuotaNoFloor(targetSize, w, totalW) == Round(targetSize * w, totalW)

\* Math.max(1, Math.round(targetSize * (g.weight || 0) / totalW))
FirstQuota(targetSize, w, totalW) == Max(1, Round(targetSize * w, totalW))

\* let quotas = vibeSubgroups.map(g => ({ id: g.id, n: ... }))
InitialQuotas(vibeSubgroups, targetSize) ==
    [i \in 1..Len(vibeSubgroups) |->
        [id |-> vibeSubgroups[i].id,
         n |-> FirstQuota(targetSize, vibeSubgroups[i].weight,
                          TotalWeight(vibeSubgroups))]]

RECURSIVE ShrinkQuotas(_, _, _)
\* while (allocated > targetSize) { q = quotas.sort(by n, descending)[0];
\*                                  if (q.n>1) { q.n--; allocated--; } else break; }
ShrinkQuotas(quotas, allocated, targetSize) ==
    IF allocated > targetSize
    THEN LET sorted == SortDescBy(quotas, [i \in 1..Len(quotas) |-> quotas[i].n])
         IN IF sorted[1].n > 1
            THEN ShrinkQuotas([sorted EXCEPT ![1].n = @ - 1], allocated - 1, targetSize)
            ELSE [quotas |-> sorted, allocated |-> allocated]
    ELSE [quotas |-> quotas, allocated |-> allocated]

RECURSIVE GrowQuotas(_, _, _, _)
\* while (allocated < targetSize) { q = quotas.sort(by pool size - n, descending)[0];
\*                                  q.n++; allocated++; }
GrowQuotas(quotas, allocated, targetSize, candidates) ==
    IF allocated < targetSize
    THEN LET sorted == SortDescBy(quotas,
                 [i \in 1..Len(quotas) |->
                     Len(PoolOf(candidates, quotas[i].id)) - quotas[i].n])
         IN GrowQuotas([sorted EXCEPT ![1].n = @ + 1], allocated + 1, targetSize,
                       candidates)
    ELSE [quotas |-> quotas, allocated |-> allocated]

\* The quotas after both adjustment loops.
Quotas(vibeSubgroups, candidates, targetSize) ==
    LET q0 == InitialQuotas(vibeSubgroups, targetSize)
        a0 == SumSeq([i \in 1..Len(q0) |-> q0[i].n])
        s == ShrinkQuotas(q0, a0, targetSize)
    IN GrowQuotas(s.quotas, s.allocated, targetSize, candidates).quotas

\* quotas.find(x => x.id === g.id)?.n || 0
QuotaOf(quotas, id) ==
    IF \E i \in 1..Len(quotas) : quotas[i].id = id
    THEN quotas[CHOOSE i \in 1..Len(quotas) :
                   quotas[i].id = id /\ \A j \in 1..(i - 1) : quotas[j].id # id].n
    ELSE 0

\* result.filter(x => x._subgroupId === g.id).length
CountInGroup(res0, id) == Len(SelectSeq(res0, LAMBDA x : x.subgroupId = id))

RECURSIVE FillSection(_, _, _, _, _, _)
\* for (const t of pool) {...}: from pool[i] on, into [result, picked].
FillSection(pool, i, acc, id, q, targetSize) ==
    IF i > Len(pool) \/ Len(acc.result) >= targetSize THEN acc
    ELSE IF pool[i].uri \in acc.picked
         THEN FillSection(pool, i + 1, acc, id, q, targetSize)
         ELSE LET next == [result |-> Append(acc.result, pool[i]),
                           picked |-> acc.picked \cup {pool[i].uri}]
              IN IF CountInGroup(next.result, id) >= q THEN next
                 ELSE FillSection(pool, i + 1, next, id, q, targetSize)

RECURSIVE FillSections(_, _, _, _, _, _)
\* for (const g of ordered) {...}: from ordered[gi] on.
FillSections(ordered, gi, acc, quotas, candidates, targetSize) ==
    IF gi > Len(ordered) THEN acc
    ELSE FillSections(ordered, gi + 1,
                      FillSection(PoolOf(candidates, ordered[gi].id), 1, acc,
                                  ordered[gi].id, QuotaOf(quotas, ordered[gi].id),
                                  targetSize),
                      quotas, candidates, targetSize)

\* A variant of the backfill that adds nothing.
BackfillNone(acc, candidates, targetSize) == acc.result

\* if (result.length < targetSize) {...}: the remainder filled with the best
\* candidates whose uri was not picked.
Backfill(acc, candidates, targetSize) ==
    IF Len(acc.result) < targetSize
    THEN LET remaining ==
                 SortByScore(SelectSeq(candidates, LAMBDA t : t.uri \notin acc.picked))
         IN acc.result \o SliceTo(remaining, targetSize - Len(acc.result))
    ELSE acc.result

\* assemblePlaylistBySections(vibeSubgroups, candidates, targetSize)
AssemblePlaylistBySections(vibeSubgroups, candidates, targetSize) ==
    IF Len(vibeSubgroups) = 0 THEN SliceTo(candidates, targetSize)
    ELSE LET quotas == Quotas(vibeSubgroups, candidates, targetSize)
             ordered == SortDescBy(vibeSubgroups,
                            [i \in 1..Len(vibeSubgroups) |-> vibeSubgroups[i].weight])
             acc == FillSections(ordered, 1, [result |-> <<>>, picked |-> {}],
                                 quotas, candidates, targetSize)
         IN SliceTo(Backfill(acc, candidates, targetSize), targetSize)

\* const targetSize = Math.min(60, 40 + seedTracks.length) - seedTracks.length
TargetSize(n) == Min(60, 40 + n) - n

\* { ...s, similarity: 100 } for a seed, and the fields of the response entry:
\* uri and similarity: Math.round(track.similarity || 0).
SeedEntry(uri) == [uri |-> uri, similarity |-> 100]
SelectionEntry(t) == [uri |-> t.uri, similarity |-> t.similarity]

\* A variant of the final list that leaves the seeds out.
FinalPlaylistNoSeeds(seedUris, selection) ==
    [i \in 1..Len(selection) |-> SelectionEntry(selection[i])]

\* const finalPlaylist = [...seedWithGroups, ...finalSelection.map(...)].map(...)
FinalPlaylist(seedUris, selection) ==
    [i \in 1..Len(seedUris) |-> SeedEntry(seedUris[i])]
        \o [i \in 1..Len(selection) |-> SelectionEntry(selection[i])]

MaxSeeds == 50
MaxAssembleCandidates == 12
SeedCounts == {0, 1, 2, 3, MaxSeeds - 2, MaxSeeds}
\* `${mood}${subMood ? ':'+subMood : ''}`, kept as the pair <<mood, subMood>>.
SubgroupIds == <<<<"neutral", "null">>, <<"party", "groovy">>, <<"chill", "null">>>>

\* The subgroups detectVibeSubgroupsByMetadata can return for n seeds, by seed
\* count; for no seed, the fallback subgroup of count 1.
SubgroupWeights(n) ==
    IF n = 0 THEN {<<1>>}
    ELSE {w \in {<<n>>, <<n - 1, 1>>, <<1, n - 1>>, <<n \div 2, n - (n \div 2)>>,
                 <<1, 1, n - 2>>} : \A i \in 1..Len(w) : w[i] >= 1}
SubgroupsOf(w) == [i \in 1..Len(w) |-> [id |-> SubgroupIds[i], weight |-> w[i]]]

\* k candidates in descending finalScore, with distinct uris, each assigned to a
\* subgroup: all to the first (1), in turn (2), all to the last (3).
CandidatePatterns == {1, 2, 3}
CandidatesOf(k, m, pattern) ==
    [i \in 1..k |->
        [uri |-> <<"cand", i>>,
         subgroupId |-> SubgroupIds[IF pattern = 1 THEN 1
                                    ELSE IF pattern = 2 THEN ((i - 1) % m) + 1
                                    ELSE m],
         finalScore |-> k - i + 1,
         similarity |-> 60]]

AssembleInit ==
    /\ \E n \in SeedCounts : \E w \in SubgroupWeights(n) :
       \E k \in 0..MaxAssembleCandidates : \E pattern \in CandidatePatterns :
          args = [seedTracks |-> [i \in 1..n |-> <<"seed", i>>],
                  vibeSubgroups |-> SubgroupsOf(w),
                  candidateTracks |-> CandidatesOf(k, Len(w), pattern)]
    /\ result = <<>>
    /\ UtilsIdle /\ AnalyzeIdle /\ UpstreamIdle /\ NetworkIdle

\* Lines 1341-1371 of /analyze: targetSize, finalSelection and finalPlaylist.
Assemble ==
    /\ result = <<>>
    /\ LET targetSize == TargetSize(Len(args.seedTracks)) IN
       \E sel \in {AssemblePlaylistBySections(args.vibeSubgroups,
                                              args.candidateTracks, targetSize)} :
          result' = <<[targetSize |-> targetSize,
                       finalSelection |-> sel,
                       finalPlaylist |-> FinalPlaylist(args.seedTracks, sel)]>>
    /\ UNCHANGED <<args, tvars, cvars, nvars, avars, uvars>>

AssembleNext == Assemble

SpecAssemble == AssembleInit /\ [][AssembleNext]_vars

\* ------------------------------------------------------------- inferVibe
\* The keyword lists of inferVibe.
MelancholicTags == {"sad", "melancholy", "depressing", "emotional"}
PartyTags == {"party", "dance", "club", "energetic"}
ChillTags == {"chill", "relaxing", "mellow", "ambient"}

\* The keys of tagCounts, in insertion order.
DistinctOf(s) ==
    LET firsts == {i \in 1..Len(s) : \A j \in 1..(i - 1) : s[j] # s[i]}
        nth(p) == CHOOSE i \in firsts : Cardinality({j \in firsts : j < i}) = p - 1
    IN [p \in 1..Cardinality(firsts) |-> s[nth(p)]]

\* tagCounts[tag]
TagCount(tags, tag) == Cardinality({i \in 1..Len(tags) : tags[i] = tag})

\* Object.entries(tagCounts).sort((a, b) => b[1] - a[1]).slice(0, 5).map(([tag]) => tag)
TopTags(tags) ==
    LET keys == DistinctOf(tags)
    IN SliceTo(SortDescBy(keys, [i \in 1..Len(keys) |-> TagCount(tags, keys[i])]), 5)

NoSubMood == "null"

\* A variant of the keyword tests that looks for a party keyword first.
MoodOfPartyFirst(top) ==
    IF top \cap PartyTags # {} THEN "party"
    ELSE IF top \cap MelancholicTags # {} THEN "melancholic"
    ELSE IF top \cap ChillTags # {} THEN "chill"
    ELSE "neutral"

\* A variant that names the mood of the party keywords "upbeat".
MoodOfUpbeat(top) ==
    IF top \cap MelancholicTags # {} THEN "melancholic"
    ELSE IF top \cap PartyTags # {} THEN "upbeat"
    ELSE IF top \cap ChillTags # {} THEN "chill"
    ELSE "neutral"

\* if (topTags.some(...)) ... else if ... else if ...: the mood of the top tags.
MoodOf(top) ==
    IF top \cap MelancholicTags # {} THEN "melancholic"
    ELSE IF top \cap PartyTags # {} THEN "party"
    ELSE IF top \cap ChillTags # {} THEN "chill"
    ELSE "neutral"

\* A variant of the confidence without its upper cap.
ConfidenceUncapped(n) == Max(20, n * 15)

\* Math.min(90, Math.max(20, n * 15)), n the sum of the tag counts.
Confidence(n) == Min(90, Max(20, n * 15))

\* inferVibe: the mood, subMood, tags and confidence of the profile, from the
\* tags getLastfmTags returned (all of them pooled, in playlist mode).
InferVibe(tags) ==
    LET top == Range(TopTags(tags))
        mood == MoodOf(top)
        subMood == IF mood = "melancholic"
                   THEN (IF "dark" \in top THEN "dark" ELSE "intimate")
                   ELSE IF mood = "party"
                   THEN (IF "electronic" \in top THEN "energetic" ELSE "groovy")
                   ELSE NoSubMood
    IN [mood |-> mood, subMood |-> subMood, tags |-> TopTags(tags),
        confidence |-> Confidence(Len(tags))]

\* The table `compatible` of isVibeMatchByMetadata.
Compatible ==
    [m \in {"melancholic", "party", "chill", "upbeat", "neutral", "aggressive"} |->
        CASE m = "melancholic" -> {"chill", "neutral", "party"}
          [] m = "party" -> {"upbeat", "neutral", "chill"}
          [] m = "chill" -> {"melancholic", "neutral", "party"}
          [] m = "upbeat" -> {"party", "neutral", "chill"}
          [] m = "neutral" -> {"melancholic", "party", "chill", "upbeat"}
          [] m = "aggressive" -> {"party", "neutral", "upbeat"}]

\* isVibeMatchByMetadata(track, playlistVibe, lastfmApiKey), on the tags
\* getLastfmTags returned for the track.
IsVibeMatchByMetadata(tags, playlistMood) ==
    LET trackVibe == InferVibe(tags) IN
    IF trackVibe.confidence < 30 THEN TRUE
    ELSE IF trackVibe.mood = playlistMood THEN TRUE
    ELSE IF playlistMood \in DOMAIN Compatible
         THEN trackVibe.mood \in Compatible[playlistMood]
         ELSE FALSE

\* ------------------------- detectVibeSubgroupsByMetadata, getBestSubgroupMatch
\* A variant that keys the groups by mood alone.
GroupIdMoodOnly(v) == <<v.mood, NoSubMood>>

\* `${mood}${subMood ? ':'+subMood : ''}`
GroupId(v) == <<v.mood, v.subMood>>

\* The vibe of a seed or candidate whose tag lookup failed (the catch branch).
NeutralVibe == [mood |-> "neutral", subMood |-> NoSubMood, tags |-> <<>>,
                confidence |-> 20]

RECURSIVE GroupSeeds(_, _, _, _)
\* for (const seed of seedTracks) {...}: seed i, of vibe vibes[i] and artist
\* names names[i], goes to the group of its id, created at its first seed.
GroupSeeds(ids, vibes, names, i) ==
    IF i = 0 THEN <<>>
    ELSE LET groups == GroupSeeds(ids, vibes, names, i - 1)
             id == GroupId(vibes[i])
             fresh == [id |-> id, mood |-> vibes[i].mood, subMood |-> vibes[i].subMood,
                       seedIds |-> <<>>, seedArtists |-> {}, tags |-> {}, count |-> 0]
             all == IF \E k \in 1..Len(groups) : groups[k].id = id
                    THEN groups ELSE Append(groups, fresh)
         IN [k \in 1..Len(all) |->
               IF all[k].id = id
               THEN [all[k] EXCEPT !.count = @ + 1,
                                   !.seedIds = Append(@, ids[i]),
                                   !.seedArtists = @ \cup (Range(names[i]) \ {NoId}),
                                   !.tags = @ \cup Range(vibes[i].tags)]
               ELSE all[k]]

\* detectVibeSubgroupsByMetadata(seedTracks, lastfmApiKey): each group with its
\* weight Math.max(1, count) / total kept as the numerator, beside total.
DetectVibeSubgroupsByMetadata(ids, vibes, names) ==
    LET groups == GroupSeeds(ids, vibes, names, Len(ids))
        vibeSubgroups ==
            IF Len(groups) = 0
            THEN <<[id |-> <<"neutral", NoSubMood>>, mood |-> "neutral",
                    subMood |-> NoSubMood, seedIds |-> <<>>, seedArtists |-> {},
                    tags |-> {}, count |-> Max(1, Len(ids))]>>
            ELSE groups
        sum == SumSeq([k \in 1..Len(vibeSubgroups) |-> vibeSubgroups[k].count])
        total == IF sum = 0 THEN 1 ELSE sum
    IN [k \in 1..Len(vibeSubgroups) |->
          [id |-> vibeSubgroups[k].id, mood |-> vibeSubgroups[k].mood,
           subMood |-> vibeSubgroups[k].subMood, seedIds |-> vibeSubgroups[k].seedIds,
           seedArtists |-> vibeSubgroups[k].seedArtists, tags |-> vibeSubgroups[k].tags,
           count |-> vibeSubgroups[k].count,
           weight |-> Max(1, vibeSubgroups[k].count), total |-> total]]

\* The score getBestSubgroupMatch gives subgroup g for a track of vibe tv and
\* artist names `names`; a track of the model has no release date, which leaves
\* the era term out.
SubgroupScore(tv, names, g) ==
    (IF tv.mood = g.mood THEN 50 ELSE 0)
    + (IF tv.subMood # NoSubMood /\ g.subMood # NoSubMood /\ tv.subMood = g.subMood
       THEN 15 ELSE 0)
    + Min(20, 4 * Cardinality({i \in 1..Len(tv.tags) : tv.tags[i] \in g.tags}))
    + (IF (Range(names) \ {NoId}) \cap g.seedArtists # {} THEN 10 ELSE 0)
    + Round(g.weight * 10, g.total)

\* getBestSubgroupMatch(track, vibeSubgroups, lastfmApiKey).subgroupId: the
\* first subgroup of the highest score.
GetBestSubgroupMatch(tv, names, vibeSubgroups) ==
    IF Len(vibeSubgroups) = 0 THEN <<"null", "null">>
    ELSE vibeSubgroups[CHOOSE k \in 1..Len(vibeSubgroups) :
            /\ \A j \in 1..Len(vibeSubgroups) :
                  SubgroupScore(tv, names, vibeSubgroups[j])
                      <= SubgroupScore(tv, names, vibeSubgroups[k])
            /\ \A j \in 1..(k - 1) :
                  SubgroupScore(tv, names, vibeSubgroups[j])
                      < SubgroupScore(tv, names, vibeSubgroups[k])].id

\* ----------------------------------------------------------- POST /analyze
\* The cap on the candidate list (80 in server.js), small enough to be reached.
MAX_CANDIDATES == 3

\* The catalog: a track is named by its uri; "a" and "b" are the ids a request
\* may name, "c", "d" and "e" the tracks mining may find besides.
TrackArtists(uri) ==
    CASE uri \in {"a", "b", "c"} -> <<"A1">>
      [] uri = "d" -> <<"A3">>
      [] OTHER -> <<"A2">>
\* The tags the tag service holds for a track.
TagsOf(uri) ==
    CASE uri = "a" -> <<"party", "dance">>
      [] uri = "b" -> <<"sad", "emotional">>
      [] uri = "c" -> <<"sad", "melancholy">>
      [] uri = "d" -> <<"sad", "depressing">>
      [] OTHER -> <<"party", "club">>
\* getLastfmTags(track, lastfmApiKey): [] when the lookup fails.
GetLastfmTags(uri, ok) == IF ok THEN TagsOf(uri) ELSE <<>>

\* The track ids a request may carry; "" and " " are blank.
IdInputs == {"", " ", "a", "b"}
\* id.trim()
Trim(id) == IF id = " " THEN "" ELSE id
\* id && id.trim()
Truthy(id) == id # "" /\ Trim(id) # ""

\* A variant that keeps the last occurrence of each id.
UniqueKeepLast(ids) ==
    LET f == SelectSeq(ids, Truthy)
        lasts == {i \in 1..Len(f) : \A j \in (i + 1)..Len(f) : f[j] # f[i]}
        nth(p) == CHOOSE i \in lasts : Cardinality({j \in lasts : j < i}) = p - 1
    IN [p \in 1..Cardinality(lasts) |-> f[nth(p)]]

\* Array.from(new Set(trackIds.filter(id => id && id.trim())))
UniqueTrackIds(ids) == DistinctOf(SelectSeq(ids, Truthy))

\* The statuses and errors of a response.
InputErrorNone == <<"input", "Nenhuma musica fornecida">>
InputErrorInvalid == <<"input", "Nenhuma musica valida">>
TokenError == <<"token", "Token de acesso nao fornecido">>
NoCandidatesError == <<"error", "Nenhum candidato encontrado">>
UpstreamError(site) == <<"upstream", site>>
ErrorResponse(status, error) == [status |-> status, error |-> error, tracks |-> <<>>]

\* A candidate record: the track with similarity, _circle (circle), _source
\* (source), and, once scored, finalScore, circle (finalCircle) and _subgroupId
\* (subgroupId); inferred is the mood isVibeMatchByMetadata inferred for it.
Candidate(uri, similarity, circle, source, inferred) ==
    [uri |-> uri, artists |-> TrackArtists(uri), similarity |-> similarity,
     circle |-> circle, source |-> source, inferred |-> inferred,
     finalScore |-> 0, finalCircle |-> 0, subgroupId |-> <<"null", "null">>]

\* The artists of each seed.
SeedArtists(seeds) == [i \in 1..Len(seeds) |-> TrackArtists(seeds[i])]

\* Math.min(100, Math.round(simScore * classification.weight))
Weighted(simScore, weight) == Min(100, Round(simScore * weight, 100))

\* classifyCandidateByProximity(track, seedTracks, topArtistIds, relatedArtistSet)
Proximity(uri) ==
    ClassifyCandidateByProximity(TrackArtists(uri), SeedArtists(seedTracks),
                                 topArtistIds, relatedArtistSet)

AnalyzeRequests ==
    [token : BOOLEAN, hasIds : {TRUE},
     trackIds : {<<>>, <<"a">>, <<"a", "b">>, <<" ", "b", "b">>}]

AnalyzeInit ==
    /\ req \in AnalyzeRequests
    /\ pc = "start"
    /\ uniqueTrackIds = <<>>
    /\ seedTracks = <<>>
    /\ uriSeen = {}
    /\ candidateTracks = <<>>
    /\ playlistVibe = "neutral"
    /\ topArtistIds = <<>>
    /\ relatedArtistSet = {}
    /\ branches = <<>>
    /\ finalSelection = <<>>
    /\ res = NoResponse
    /\ called = {}
    /\ failed = {}
    /\ mined = <<>>
    /\ UtilsIdle /\ FunctionIdle /\ UpstreamIdle /\ NetworkIdle

\* The two input tests of /analyze: no id, or none left after the filter.
RejectsInput(r) ==
    \/ ~r.hasIds
    \/ Len(r.trackIds) = 0
    \/ Len(UniqueTrackIds(r.trackIds)) = 0

\* Lines 921-935: createApiInstance, the input tests, uniqueTrackIds.
Validate ==
    /\ pc = "start"
    /\ IF ~req.token
       THEN /\ res' = ErrorResponse(500, TokenError)
            /\ pc' = "done"
            /\ UNCHANGED uniqueTrackIds
       ELSE IF RejectsInput(req)
       THEN /\ res' = ErrorResponse(400, IF ~req.hasIds \/ Len(req.trackIds) = 0
                                         THEN InputErrorNone ELSE InputErrorInvalid)
            /\ pc' = "done"
            /\ UNCHANGED uniqueTrackIds
       ELSE /\ uniqueTrackIds' = UniqueTrackIds(req.trackIds)
            /\ pc' = "getMe"
            /\ UNCHANGED res
    /\ UNCHANGED <<req, seedTracks, uriSeen, candidateTracks, playlistVibe,
                   topArtistIds, relatedArtistSet, branches, finalSelection,
                   called, failed, mined, tvars, cvars, nvars, fvars, uvars>>

\* Line 937: await spotifyLimiter.execute(() => api.getMe()).
GetMe ==
    /\ pc = "getMe"
    /\ called' = called \cup {"getMe"}
    /\ \E ok \in BOOLEAN :
          IF ok THEN /\ pc' = "getTracks"
                     /\ UNCHANGED <<res, failed>>
          ELSE /\ failed' = failed \cup {"getMe"}
               /\ res' = ErrorResponse(500, UpstreamError("getMe"))
               /\ pc' = "done"
    /\ UNCHANGED <<req, uniqueTrackIds, seedTracks, uriSeen, candidateTracks,
                   playlistVibe, topArtistIds, relatedArtistSet, branches,
                   finalSelection, mined, tvars, cvars, nvars, fvars, uvars>>

\* The ids the catalog may know.
KnownIdSets == {{"a", "b"}, {"a"}}

\* Lines 940-943: getTracks, seedTracks (the tracks found), uriSeen.
GetTracks ==
    /\ pc = "getTracks"
    /\ called' = called \cup {"getTracks"}
    /\ \E ok \in BOOLEAN : \E known \in KnownIdSets :
          IF ok
          THEN /\ seedTracks' = SelectSeq(uniqueTrackIds, LAMBDA id : id \in known)
               /\ uriSeen' = Range(seedTracks')
               /\ pc' = "profile"
               /\ UNCHANGED <<res, failed>>
          ELSE /\ failed' = failed \cup {"getTracks"}
               /\ res' = ErrorResponse(500, UpstreamError("getTracks"))
               /\ pc' = "done"
               /\ UNCHANGED <<seedTracks, uriSeen>>
    /\ UNCHANGED <<req, uniqueTrackIds, candidateTracks, playlistVibe,
                   topArtistIds, relatedArtistSet, branches, finalSelection,
                   mined, tvars, cvars, nvars, fvars, uvars>>

RECURSIVE PooledTags(_, _)
\* tagsArrays.forEach(tags => allTags.push(...tags)), every lookup ok or failed.
PooledTags(seeds, ok) ==
    IF seeds = <<>> THEN <<>>
    ELSE GetLastfmTags(Head(seeds), ok) \o PooledTags(Tail(seeds), ok)

\* The taste profile and related artists the upstream answers can give.
Profiles == {[top |-> <<>>, related |-> {}], [top |-> <<"A3">>, related |-> {}],
             [top |-> <<>>, related |-> {"A3"}]}

\* Lines 944-1043: related artists, seed genres, artist network, playlistVibe,
\* top artists; every upstream failure in them is caught where it happens.
Profile ==
    /\ pc = "profile"
    /\ called' = called \cup {"profile"}
    /\ \E ok \in BOOLEAN : \E pr \in Profiles :
          /\ playlistVibe' = InferVibe(PooledTags(SliceTo(seedTracks, 3), ok)).mood
          /\ topArtistIds' = pr.top
          /\ relatedArtistSet' = (IF seedTracks = <<>> THEN {} ELSE pr.related)
          /\ failed' = IF ok THEN failed ELSE failed \cup {"profile"}
    /\ pc' = "recs"
    /\ UNCHANGED <<req, uniqueTrackIds, seedTracks, uriSeen, candidateTracks,
                   branches, finalSelection, res, mined, tvars, cvars, nvars, fvars, uvars>>

\* A variant of the filter on the recommendations that keeps the seeds.
KeepUnseenAll(tracks, seen) == tracks

\* recsData.body.tracks.filter(t => !uriSeen.has(t.uri))
KeepUnseen(tracks, seen) == SelectSeq(tracks, LAMBDA uri : uri \notin seen)

RECURSIVE RecLoop(_, _, _)
\* for (const track of recTracks) {...}: onto acc = [candidates, seen].
RecLoop(recTracks, ok, acc) ==
    IF recTracks = <<>> THEN acc
    ELSE LET uri == Head(recTracks)
             tags == GetLastfmTags(uri, ok)
         IN IF ~IsVibeMatchByMetadata(tags, playlistVibe)
            THEN RecLoop(Tail(recTracks), ok, acc)
            ELSE IF Len(acc.candidates) < MAX_CANDIDATES
            THEN RecLoop(Tail(recTracks), ok,
                    [candidates |->
                        Append(acc.candidates,
                               Candidate(uri, Weighted(80, Proximity(uri).weight),
                                         Proximity(uri).circle, "spotify-rec",
                                         InferVibe(tags).mood)),
                     seen |-> acc.seen \cup {uri}])
            ELSE RecLoop(Tail(recTracks), ok, acc)

\* What getRecommendations may return.
RecResponses == {<<>>, <<"e">>, <<"a", "c">>}

\* Lines 1044-1086: the recommendations (none when the call fails) and the loop
\* over them, with the tag lookups of the loop all answered or all failing.
SeedExpansion ==
    /\ pc = "recs"
    /\ called' = called \cup {"getRecommendations"}
    /\ \E recsOk \in BOOLEAN : \E recs \in RecResponses : \E tagsOk \in BOOLEAN :
          /\ recsOk \/ recs = <<>>
          /\ tagsOk \/ recs # <<>>
          /\ LET recTracks == KeepUnseen(recs, uriSeen)
                 r == RecLoop(recTracks, tagsOk,
                              [candidates |-> candidateTracks, seen |-> uriSeen])
             IN /\ candidateTracks' = r.candidates
                /\ uriSeen' = r.seen
          /\ failed' = failed \cup (IF recsOk THEN {} ELSE {"getRecommendations"})
                            \cup (IF tagsOk THEN {} ELSE {"getLastfmTags"})
    /\ pc' = "similar"
    /\ UNCHANGED <<req, uniqueTrackIds, seedTracks, playlistVibe, topArtistIds,
                   relatedArtistSet, branches, finalSelection, res,
                   mined, tvars, cvars, nvars, fvars, uvars>>

\* An item a mining branch goes through: the track, its _source, the simScore
\* it starts from, and its _circle when that is fixed (0: taken from the
\* classification).
MinedItem(uri, source, base, circle) ==
    [uri |-> uri, source |-> source, base |-> base, circle |-> circle]
\* An async callback of a Promise.all, at the head of its for-loop.
Branch(items) == [items |-> items, st |-> "check"]

\* The branches of deepCutPromises: one per artist of lastfmArtistCandidates.
DeepCutBranches == {<<>>, <<Branch(<<MinedItem("d", "lastfm", 75, 0)>>)>>}

\* const similar = await getLastfmSimilarArtists(...): a rejection is not caught
\* in the callback, so Promise.all(similarPromises) rejects.
Throws(ok) == ~ok

\* Lines 1090-1110: similarPromises (one getLastfmSimilarArtists per seed, of
\* the first 3), then the start of deepCutPromises.
SimilarArtists ==
    /\ pc = "similar"
    /\ \E ok \in BOOLEAN : \E bs \in DeepCutBranches :
          /\ seedTracks = <<>> => ok /\ bs = <<>>
          /\ ~ok => bs = <<>>
          /\ called' = IF seedTracks = <<>> THEN called
                       ELSE called \cup {"getLastfmSimilarArtists"}
          /\ IF Throws(ok)
             THEN /\ failed' = failed \cup {"getLastfmSimilarArtists"}
                  /\ res' = ErrorResponse(500, UpstreamError("getLastfmSimilarArtists"))
                  /\ pc' = "done"
                  /\ UNCHANGED branches
             ELSE /\ failed' = IF ok THEN failed
                               ELSE failed \cup {"getLastfmSimilarArtists"}
                  /\ branches' = bs
                  /\ pc' = "deepCuts"
                  /\ UNCHANGED res
    /\ UNCHANGED <<req, uniqueTrackIds, seedTracks, uriSeen, candidateTracks,
                   playlistVibe, topArtistIds, relatedArtistSet, finalSelection,
                   mined, tvars, cvars, nvars, fvars, uvars>>

\* The stages at which the branches of a Promise.all are running.
MiningStages == {"deepCuts", "seedCuts", "niche"}

\* if (!uriSeen.has(track.uri) && candidateTracks.length < MAX_CANDIDATES)
IsNew(uri) == uri \notin uriSeen /\ Len(candidateTracks) < MAX_CANDIDATES

\* A branch tests the track at the head of its loop and, if it is new, awaits
\* isVibeMatchByMetadata; the other branches run meanwhile.
BranchCheck(i) ==
    /\ pc \in MiningStages
    /\ branches[i].st = "check"
    /\ branches[i].items # <<>>
    /\ IF IsNew(Head(branches[i].items).uri)
       THEN /\ branches' = [branches EXCEPT ![i].st = "await"]
            /\ called' = called \cup {"getLastfmTags"}
       ELSE /\ branches' = [branches EXCEPT ![i].items = Tail(@)]
            /\ UNCHANGED called
    /\ UNCHANGED <<req, pc, uniqueTrackIds, seedTracks, uriSeen, candidateTracks,
                   playlistVibe, topArtistIds, relatedArtistSet, finalSelection,
                   res, failed, mined, tvars, cvars, nvars, fvars, uvars>>

\* A branch resumes after isVibeMatchByMetadata: the track is dropped (continue)
\* or pushed and its uri added to uriSeen.
BranchPush(i) ==
    /\ pc \in MiningStages
    /\ branches[i].st = "await"
    /\ \E ok \in BOOLEAN :
          LET t == Head(branches[i].items)
              tags == GetLastfmTags(t.uri, ok)
          IN /\ failed' = IF ok THEN failed ELSE failed \cup {"getLastfmTags"}
             /\ IF IsVibeMatchByMetadata(tags, playlistVibe)
                THEN /\ candidateTracks' =
                            Append(candidateTracks,
                                   Candidate(t.uri,
                                             Weighted(t.base, Proximity(t.uri).weight),
                                             IF t.circle = 0 THEN Proximity(t.uri).circle
                                             ELSE t.circle,
                                             t.source, InferVibe(tags).mood))
                     /\ uriSeen' = uriSeen \cup {t.uri}
                ELSE UNCHANGED <<candidateTracks, uriSeen>>
    /\ branches' = [branches EXCEPT ![i] = [items |-> Tail(@.items), st |-> "check"]]
    /\ UNCHANGED <<req, pc, uniqueTrackIds, seedTracks, playlistVibe, topArtistIds,
                   relatedArtistSet, finalSelection, res, called,
                   mined, tvars, cvars, nvars, fvars, uvars>>

\* await Promise.all(...): every branch has left its loop.
AllBranchesDone == \A i \in 1..Len(branches) : branches[i].items = <<>>

\* What one callback of lastfmPromises goes through: the deep cuts of the seed
\* artist, then the tracks found for the similar tracks of the seed.
SeedBranchItems ==
    {<<>>,
     <<MinedItem("c", "deep-cut", 90, 0)>>,
     <<MinedItem("c", "deep-cut", 90, 0), MinedItem("e", "lastfm", 72, 0)>>}

\* Lines 1129-1135: the start of lastfmPromises, one callback per seed of the
\* first 3; a failure inside a callback ends its list early (try/catch).
SeedDeepCuts ==
    /\ pc = "deepCuts"
    /\ AllBranchesDone
    /\ \E items \in SeedBranchItems :
          branches' = [i \in 1..Len(SliceTo(seedTracks, 3)) |-> Branch(items)]
    /\ called' = IF seedTracks = <<>> THEN called ELSE called \cup {"getArtistDeepCuts"}
    /\ pc' = "seedCuts"
    /\ UNCHANGED <<req, uniqueTrackIds, seedTracks, uriSeen, candidateTracks,
                   playlistVibe, topArtistIds, relatedArtistSet, finalSelection,
                   res, failed, mined, tvars, cvars, nvars, fvars, uvars>>

\* The branches of nichePromises: one per niche artist; _circle is set to 3.
NicheBranches == {<<>>, <<Branch(<<MinedItem("d", "deep-cut", 70, 3)>>)>>}

\* Lines 1192-1194: the start of nichePromises.
NicheDeepCuts ==
    /\ pc = "seedCuts"
    /\ AllBranchesDone
    /\ \E bs \in NicheBranches :
          /\ seedTracks = <<>> => bs = <<>>
          /\ branches' = bs
    /\ pc' = "niche"
    /\ UNCHANGED <<req, uniqueTrackIds, seedTracks, uriSeen, candidateTracks,
                   playlistVibe, topArtistIds, relatedArtistSet, finalSelection,
                   res, called, failed, mined, tvars, cvars, nvars, fvars, uvars>>

RECURSIVE EraLoop(_, _)
\* eraTracks.forEach(track => {...}) of every eraPromise: each track of
\* getTracksFromEraContext (similarity 85, _circle 2, _source 'era-context') is
\* pushed if its uri is new; no vibe test is made on it.
EraLoop(eraTracks, acc) ==
    IF eraTracks = <<>> THEN acc
    ELSE LET uri == Head(eraTracks) IN
         IF uri \notin acc.seen /\ Len(acc.candidates) < MAX_CANDIDATES
         THEN EraLoop(Tail(eraTracks),
                 [candidates |-> Append(acc.candidates,
                                        Candidate(uri, 85, 2, "era-context", "none")),
                  seen |-> acc.seen \cup {uri}])
         ELSE EraLoop(Tail(eraTracks), acc)

\* The tracks the eraPromises return, in the order they are pushed.
EraResponses == {<<>>, <<"d">>, <<"e", "d">>}

\* Lines 1212-1242: getArtistsFromSameEra and the eraPromises.
EraContext ==
    /\ pc = "niche"
    /\ AllBranchesDone
    /\ \E eraTracks \in EraResponses :
          /\ seedTracks = <<>> => eraTracks = <<>>
          /\ LET r == EraLoop(eraTracks,
                              [candidates |-> candidateTracks, seen |-> uriSeen])
             IN /\ candidateTracks' = r.candidates
                /\ uriSeen' = r.seen
    /\ called' = IF seedTracks = <<>> THEN called ELSE called \cup {"getArtistsFromSameEra"}
    /\ branches' = <<>>
    /\ pc' = "finish"
    /\ UNCHANGED <<req, uniqueTrackIds, seedTracks, playlistVibe, topArtistIds,
                   relatedArtistSet, finalSelection, res, failed,
                   mined, tvars, cvars, nvars, fvars, uvars>>

\* uniqueCandidates: the first record of each uri, in insertion order.
DedupByUri(cs) ==
    LET firsts == {i \in 1..Len(cs) : \A j \in 1..(i - 1) : cs[j].uri # cs[i].uri}
        nth(p) == CHOOSE i \in firsts : Cardinality({j \in firsts : j < i}) = p - 1
    IN [p \in 1..Cardinality(firsts) |-> cs[nth(p)]]

\* Lines 1244-1248: Array.from(uniqueCandidates.values()).slice(0, MAX_CANDIDATES)
UniqueCandidates(cs) == SliceTo(DedupByUri(cs), MAX_CANDIDATES)

\* The multipliers of the contextual filter, in hundredths: genre (one matching
\* genre, or none), decade (a track of the model has no release date:
\* 'Unknown') and proximity (by _circle).
GenreMultiplier(matches) == IF matches THEN 106 ELSE 70
DecadeMultiplierUnknown == 97
ProximityMultiplier(circle) ==
    IF circle = 1 THEN 110 ELSE IF circle = 2 THEN 106
    ELSE IF circle = 3 THEN 103 ELSE 100

\* Math.min(100, Math.round((track.similarity || 0) * combinedMultiplier)),
\* the three multipliers in hundredths.
CombinedSim(sim, genre, decade, proximity) ==
    Min(100, Round(sim * genre * decade * proximity, 1000000))

\* newSim of a candidate of the catalog.
NewSim(c, matches) ==
    CombinedSim(c.similarity, GenreMultiplier(matches), DecadeMultiplierUnknown,
                ProximityMultiplier(c.circle))

\* A variant of the filter that keeps every candidate.
SurvivesAll(sim) == TRUE

\* .filter(track => track.similarity > 50)
Survives(sim) == sim > 50

\* Lines 1289-1313: the contextual filter, given the artists with a seed genre;
\* skipped when the seeds give neither genres nor decades (no seed).
ContextFilter(cs, genreArtists) ==
    IF seedTracks = <<>> THEN cs
    ELSE LET adjusted ==
                 [i \in 1..Len(cs) |->
                    [cs[i] EXCEPT !.similarity =
                        NewSim(cs[i], Range(cs[i].artists) \cap genreArtists # {})]]
         IN SelectSeq(adjusted, LAMBDA c : Survives(c.similarity))

\* 1 + (Math.random() - 0.5) * 0.3 in hundredths, for the i-th candidate.
Jitters == {1, 2, 3}
VariabilityFactor(jitter, i) ==
    IF jitter = 1 THEN 100
    ELSE IF (i % 2 = 1) = (jitter = 2) THEN 85 ELSE 115

\* A variant of the scoring that writes the jittered value into similarity too.
ScoredOverwrites(cs, jitter) ==
    LET scored == [i \in 1..Len(cs) |->
                     [cs[i] EXCEPT
                        !.finalScore = cs[i].similarity * Proximity(cs[i].uri).weight
                                           * VariabilityFactor(jitter, i),
                        !.similarity = Round(cs[i].similarity
                                                 * VariabilityFactor(jitter, i), 100),
                        !.finalCircle = Proximity(cs[i].uri).circle]]
    IN SortDescBy(scored, [i \in 1..Len(scored) |-> scored[i].finalScore])

\* Lines 1322-1329: finalScore and circle of each candidate, then the sort.
Scored(cs, jitter) ==
    LET scored == [i \in 1..Len(cs) |->
                     [cs[i] EXCEPT
                        !.finalScore = cs[i].similarity * Proximity(cs[i].uri).weight
                                           * VariabilityFactor(jitter, i),
                        !.finalCircle = Proximity(cs[i].uri).circle]]
    IN SortDescBy(scored, [i \in 1..Len(scored) |-> scored[i].finalScore])

\* The vibe inferVibe gives a track, its tag lookup answered or failing.
VibeOf(uri, ok) == InferVibe(GetLastfmTags(uri, ok))

\* Lines 1332-1338: the subgroups of the seeds and the subgroup of each candidate.
SeedSubgroups(ok) ==
    DetectVibeSubgroupsByMetadata(seedTracks,
                                  [i \in 1..Len(seedTracks) |-> VibeOf(seedTracks[i], ok)],
                                  SeedArtists(seedTracks))
WithSubgroups(cs, vibeSubgroups, ok) ==
    [i \in 1..Len(cs) |->
        [cs[i] EXCEPT !.subgroupId =
            GetBestSubgroupMatch(VibeOf(cs[i].uri, ok), cs[i].artists, vibeSubgroups)]]

\* A variant that answers with the seeds alone when no candidate is left.
NoCandidatesSeedsOnly(cs) == FALSE

\* if (candidateTracks.length === 0) throw new Error('Nenhum candidato encontrado...')
NoCandidates(cs) == Len(cs) = 0

\* The artists the genre lookup may give a genre of the seeds.
GenreArtistSets == {{}, {"A1", "A2", "A3"}}

\* Lines 1243-1398: dedup by uri, contextual filter, the no-candidate test,
\* scoring, subgroups, assembly and the response.
Finish ==
    /\ pc = "finish"
    /\ called' = called \cup {"getArtistsGenres"}
    /\ \E genreArtists \in GenreArtistSets : \E jitter \in Jitters : \E ok \in BOOLEAN :
          LET unique == UniqueCandidates(candidateTracks)
              filtered == ContextFilter(unique, genreArtists)
          IN IF NoCandidates(filtered)
             THEN /\ candidateTracks' = filtered
                  /\ res' = ErrorResponse(500, NoCandidatesError)
                  /\ UNCHANGED <<finalSelection, failed>>
             ELSE \E vibeSubgroups \in {SeedSubgroups(ok)} :
                  \E cs \in {WithSubgroups(Scored(filtered, jitter), vibeSubgroups, ok)} :
                  \E sel \in {AssemblePlaylistBySections(vibeSubgroups, cs,
                                    TargetSize(Len(seedTracks)))} :
                     /\ candidateTracks' = cs
                     /\ finalSelection' = sel
                     /\ res' = [status |-> 200, error |-> <<"none", "">>,
                                tracks |-> FinalPlaylist(seedTracks, sel)]
                     /\ failed' = IF ok THEN failed ELSE failed \cup {"getLastfmTags"}
    /\ mined' = candidateTracks
    /\ pc' = "done"
    /\ UNCHANGED <<req, uniqueTrackIds, seedTracks, uriSeen, playlistVibe,
                   topArtistIds, relatedArtistSet, branches,
                   tvars, cvars, nvars, fvars, uvars>>

AnalyzeNext ==
    \/ Validate
    \/ GetMe
    \/ GetTracks
    \/ Profile
    \/ SeedExpansion
    \/ SimilarArtists
    \/ \E i \in 1..Len(branches) : BranchCheck(i)
    \/ \E i \in 1..Len(branches) : BranchPush(i)
    \/ SeedDeepCuts
    \/ NicheDeepCuts
    \/ EraContext
    \/ Finish

SpecAnalyze == AnalyzeInit /\ [][AnalyzeNext]_vars

\* Every request body: trackIds missing, or any list of up to MaxIds ids.
MaxIds == 3
RECURSIVE IdLists(_)
IdLists(n) ==
    IF n = 0 THEN {<<>>}
    ELSE IdLists(n - 1)
         \cup {Append(l, id) : l \in {m \in IdLists(n - 1) : Len(m) = n - 1},
                               id \in IdInputs}
ValidateRequests ==
    [token : BOOLEAN, hasIds : {TRUE}, trackIds : IdLists(MaxIds)]
        \cup [token : BOOLEAN, hasIds : {FALSE}, trackIds : {<<>>}]

ValidateInit ==
    /\ req \in ValidateRequests
    /\ pc = "start"
    /\ uniqueTrackIds = <<>>
    /\ seedTracks = <<>>
    /\ uriSeen = {}
    /\ candidateTracks = <<>>
    /\ playlistVibe = "neutral"
    /\ topArtistIds = <<>>
    /\ relatedArtistSet = {}
    /\ branches = <<>>
    /\ finalSelection = <<>>
    /\ res = NoResponse
    /\ called = {}
    /\ failed = {}
    /\ mined = <<>>
    /\ UtilsIdle /\ FunctionIdle /\ UpstreamIdle /\ NetworkIdle

\* The handler up to its second upstream call.
ValidateNext == Validate \/ GetMe \/ GetTracks

SpecValidate == ValidateInit /\ [][ValidateNext]_vars

\* ------------------------------- lastfmLimiter, spotifyLimiter (server.js)
\* maxQueue of both limiters, scaled down from 20.
UpstreamMaxQueue == 1
\* The callbacks of similarPromises of one request and of deepCutPromises of
\* another that run at the same time.
SimilarBranches == 4
DeepCutCallbacks == 2
\* The same, fewer, where every callback is followed to its end.
FairSimilarBranches == 3
FairDeepCutCallbacks == 1

\* new RateLimiter(concurrency, maxQueue)
NewRateLimiter(c, q) == [concurrency |-> c, maxQueue |-> q, active |-> 0, queue |-> <<>>]
\* A variant of lastfmLimiter that runs one task at a time.
LastfmLimiterSerial == NewRateLimiter(1, UpstreamMaxQueue)
\* const lastfmLimiter = new RateLimiter(2, 20)
LastfmLimiter == NewRateLimiter(2, UpstreamMaxQueue)
\* const spotifyLimiter = new RateLimiter(5, 20)
SpotifyLimiter == NewRateLimiter(5, UpstreamMaxQueue)
Services == {"lastfm", "spotify"}

\* The service each call site of the mining stage calls.
ServiceOf(site) ==
    IF site \in {"getLastfmSimilarArtists", "getLastfmTags"} THEN "lastfm" ELSE "spotify"
\* A variant in which every call site goes through spotifyLimiter.
LimiterOfShared(site) == "spotify"
\* The limiter whose execute wraps each call site.
LimiterOf(site) ==
    CASE site = "getLastfmSimilarArtists" -> "lastfm"
      [] site = "getLastfmTags" -> "lastfm"
      [] site = "searchArtists" -> "spotify"
      [] site = "getArtistAlbums" -> "spotify"

\* The upstream calls each callback makes, one after the other: callbacks
\* 1..SimilarBranches are those of similarPromises, the next are those of
\* deepCutPromises.
Plan ==
    [b \in 1..(SimilarBranches + DeepCutCallbacks) |->
        IF b <= SimilarBranches
        THEN [request |-> 1, sites |-> <<"getLastfmSimilarArtists", "searchArtists">>]
        ELSE [request |-> 2, sites |-> <<"getArtistAlbums">>]]
\* The calls of the first n similarPromises and the first m deepCutPromises.
CallsOf(n, m) ==
    {c \in (DOMAIN Plan) \X (1..2) :
        /\ c[1] <= n \/ (c[1] > SimilarBranches /\ c[1] <= SimilarBranches + m)
        /\ c[2] <= Len(Plan[c[1]].sites)}
\* The calls and the callbacks of the run.
CallIds == DOMAIN calls
UpstreamBranches == {c[1] : c \in CallIds}
SiteOf(c) == Plan[c[1]].sites[c[2]]

\* The states of a call: not made yet (todo), in the queue of its limiter
\* (queued), shifted by _tryNext with its fn not yet invoked (started), its
\* request sent and not answered (inflight; stalled if it will never be
\* answered), answered (resolved, rejected), or refused by execute (refused).
InFlightStates == {"inflight", "stalled"}
SettledStates == {"resolved", "rejected", "refused"}

UpstreamInit ==
    /\ limiters = [s \in Services |->
                      IF s = "lastfm" THEN LastfmLimiter ELSE SpotifyLimiter]
    /\ calls = [c \in CallsOf(SimilarBranches, DeepCutCallbacks) |-> "todo"]
    /\ ThrottleIdle /\ CacheIdle /\ AnalyzeIdle /\ FunctionIdle /\ NetworkIdle

UpstreamFairInit ==
    /\ limiters = [s \in Services |->
                      IF s = "lastfm" THEN LastfmLimiter ELSE SpotifyLimiter]
    /\ calls = [c \in CallsOf(FairSimilarBranches, FairDeepCutCallbacks) |-> "todo"]
    /\ ThrottleIdle /\ CacheIdle /\ AnalyzeIdle /\ FunctionIdle /\ NetworkIdle

\* if (this.active < this.concurrency && this.queue.length > 0)
TryNextGuard(l) == l.active < l.concurrency /\ Len(l.queue) > 0

\* _tryNext() of limiter s: [limiters, calls] after it.
UpstreamTryNext(ls, cs, s) ==
    IF TryNextGuard(ls[s])
    THEN [limiters |-> [ls EXCEPT ![s].queue = Tail(@), ![s].active = @ + 1],
          calls |-> [cs EXCEPT ![Head(ls[s].queue)] = "started"]]
    ELSE [limiters |-> ls, calls |-> cs]

\* The call a callback makes next: the first not made, its predecessors resolved.
NextCall(b) ==
    {c \in CallIds : /\ c[1] = b
                     /\ calls[c] = "todo"
                     /\ \A k \in 1..(c[2] - 1) : calls[<<b, k>>] = "resolved"}

\* limiter.execute(fn) by callback b: refused when the queue is full, else
\* pushed, followed by _tryNext().
UpstreamExecute(b) ==
    /\ \E c \in NextCall(b) :
          LET s == LimiterOf(SiteOf(c)) IN
          IF Len(limiters[s].queue) >= limiters[s].maxQueue
          THEN /\ calls' = [calls EXCEPT ![c] = "refused"]
               /\ UNCHANGED limiters
          ELSE LET r == UpstreamTryNext(
                            [limiters EXCEPT ![s].queue = Append(@, c)],
                            [calls EXCEPT ![c] = "queued"], s)
               IN /\ limiters' = r.limiters
                  /\ calls' = r.calls
    /\ UNCHANGED <<tvars, cvars, nvars, avars, fvars>>

\* No call has stalled so far.
NoneStalled == \A c \in CallIds : calls[c] # "stalled"

\* Promise.resolve().then(() => item.fn()): the request is sent; at most one
\* call of a run is never answered.
UpstreamInvoke(c) ==
    /\ c \in CallIds
    /\ calls[c] = "started"
    /\ \E stall \in BOOLEAN :
          /\ stall => NoneStalled
          /\ calls' = [calls EXCEPT ![c] = IF stall THEN "stalled" ELSE "inflight"]
    /\ UNCHANGED <<limiters, tvars, cvars, nvars, avars, fvars>>

\* The answer arrives: this.active--, item.resolve / item.reject, _tryNext().
UpstreamSettle(c) ==
    /\ c \in CallIds
    /\ calls[c] = "inflight"
    /\ \E outcome \in {"resolved", "rejected"} :
          LET s == LimiterOf(SiteOf(c))
              r == UpstreamTryNext([limiters EXCEPT ![s].active = @ - 1],
                                   [calls EXCEPT ![c] = outcome], s)
          IN /\ limiters' = r.limiters
             /\ calls' = r.calls
    /\ UNCHANGED <<tvars, cvars, nvars, avars, fvars>>

UpstreamNext ==
    \/ \E b \in UpstreamBranches : UpstreamExecute(b)
    \/ \E c \in CallIds : UpstreamInvoke(c)
    \/ \E c \in CallIds : UpstreamSettle(c)

SpecUpstream == UpstreamInit /\ [][UpstreamNext]_vars

\* The event loop runs every callback and microtask that is ready, and every
\* request that is sent and does not stall is answered.
UpstreamFairness ==
    /\ \A b \in DOMAIN Plan : WF_vars(UpstreamExecute(b))
    /\ \A c \in (DOMAIN Plan) \X (1..2) :
          WF_vars(UpstreamInvoke(c)) /\ WF_vars(UpstreamSettle(c))

SpecUpstreamFair == UpstreamFairInit /\ [][UpstreamNext]_vars /\ UpstreamFairness

\* ------------------------------------------------------- detectCulturalEra
\* The release year of a seed: NoYear for a missing or unparsable release_date.
NoYear == 0
SeedYears == {NoYear, 1950, 1951, 1979, 1980, 1989, 1990, 1997, 1998, 1999, 2001,
              2003, 2004, 2005, 2009, 2010, 2014, 2015, 2019, 2020, 2024}
\* new Date().getFullYear()
CurrentYears == {2025, 2026}
MaxEraSeeds == 2

RECURSIVE YearLists(_)
YearLists(n) ==
    IF n = 0 THEN {<<>>}
    ELSE YearLists(n - 1)
         \cup {Append(l, y) : l \in {m \in YearLists(n - 1) : Len(m) = n - 1},
                              y \in SeedYears}

\* .filter(y => y && y > 1950)
ValidYears(years) == SelectSeq(years, LAMBDA y : y # NoYear /\ y > 1950)
\* Math.max(...years), Math.min(...years)
MaxOf(years) == CHOOSE y \in Range(years) : \A z \in Range(years) : z <= y
MinOf(years) == CHOOSE y \in Range(years) : \A z \in Range(years) : y <= z

\* A variant of the if-chain in which mid-2000s starts at 2005.
CulturalEraLate(avgYear) ==
    IF avgYear >= 2020 THEN "2020s"
    ELSE IF avgYear >= 2015 /\ avgYear < 2020 THEN "late-2010s"
    ELSE IF avgYear >= 2010 /\ avgYear < 2015 THEN "early-2010s"
    ELSE IF avgYear >= 2005 /\ avgYear < 2010 THEN "mid-2000s"
    ELSE IF avgYear >= 1998 /\ avgYear < 2005 THEN "late-90s-early-2000s"
    ELSE IF avgYear >= 1990 /\ avgYear < 1998 THEN "90s"
    ELSE IF avgYear >= 1980 /\ avgYear < 1990 THEN "80s"
    ELSE "classic"

\* The if-chain of detectCulturalEra on avgYear.
CulturalEra(avgYear) ==
    IF avgYear >= 2020 THEN "2020s"
    ELSE IF avgYear >= 2015 /\ avgYear < 2020 THEN "late-2010s"
    ELSE IF avgYear >= 2010 /\ avgYear < 2015 THEN "early-2010s"
    ELSE IF avgYear >= 2004 /\ avgYear < 2010 THEN "mid-2000s"
    ELSE IF avgYear >= 1998 /\ avgYear < 2004 THEN "late-90s-early-2000s"
    ELSE IF avgYear >= 1990 /\ avgYear < 1998 THEN "90s"
    ELSE IF avgYear >= 1980 /\ avgYear < 1990 THEN "80s"
    ELSE "classic"

\* detectCulturalEra(seedTracks, ...) on the release years of the seeds.
DetectCulturalEra(seedYears, currentYear) ==
    LET years == ValidYears(seedYears) IN
    IF Len(years) = 0
    THEN [culturalEra |-> "contemporary", avgYear |-> currentYear, yearSpread |-> 0,
          isFocusedEra |-> TRUE, timeRange |-> <<currentYear, currentYear>>]
    ELSE LET avgYear == Round(SumSeq(years), Len(years))
             yearSpread == MaxOf(years) - MinOf(years)
         IN [culturalEra |-> CulturalEra(avgYear), avgYear |-> avgYear,
             yearSpread |-> yearSpread, isFocusedEra |-> yearSpread <= 5,
             timeRange |-> <<MinOf(years), MaxOf(years)>>]

EraInit ==
    /\ args \in [seedYears : YearLists(MaxEraSeeds), currentYear : CurrentYears]
    /\ result = <<>>
    /\ UtilsIdle /\ AnalyzeIdle /\ UpstreamIdle /\ NetworkIdle

\* One call of detectCulturalEra.
DetectEra ==
    /\ "seedYears" \in DOMAIN args
    /\ Len(result) < 1
    /\ result' = Append(result, DetectCulturalEra(args.seedYears, args.currentYear))
    /\ UNCHANGED <<args, tvars, cvars, nvars, avars, uvars>>

EraNext == DetectEra

SpecEra == EraInit /\ [][EraNext]_vars

\* --------------------------------------------------- inferVibe on its tags
\* The tags the tag service may return, in two orders of first appearance:
\* keywords last and keywords first.
TagOrders ==
    {<<"rock", "indie", "pop", "live", "90s", "sad", "party", "chill">>,
     <<"chill", "party", "sad", "rock", "indie", "pop", "live", "90s">>}
VibeTags == {"rock", "indie", "pop", "live", "90s", "sad", "party", "chill"}
\* How often one tag may be returned (pooled over the seeds of a playlist).
MaxTagCount == 2
\* How often each tag is returned: the last two fillers never or always.
TagCounts ==
    {count \in [VibeTags -> 0..MaxTagCount] :
        count["live"] \in {0, MaxTagCount} /\ count["90s"] \in {0, MaxTagCount}}
\* The tags added between two calls.
MaxAddedTags == 1

RECURSIVE TagRounds(_, _, _)
\* The tags of order o, tag t taken count[t] times: round r holds the r-th
\* occurrence of every tag that has one.
TagRounds(o, count, r) ==
    IF r > MaxTagCount THEN <<>>
    ELSE SelectSeq(o, LAMBDA t : count[t] >= r) \o TagRounds(o, count, r + 1)

VibeInit ==
    /\ \E o \in TagOrders : \E count \in TagCounts :
          args = [tags |-> TagRounds(o, count, 1), added |-> 0]
    /\ result = <<>>
    /\ UtilsIdle /\ AnalyzeIdle /\ UpstreamIdle /\ NetworkIdle

\* One call of inferVibe on the tags; result keeps the tags beside the profile.
InferVibeCall ==
    /\ "added" \in DOMAIN args
    /\ Len(result) <= args.added
    /\ result' = Append(result, [of |-> args.tags, vibe |-> InferVibe(args.tags)])
    /\ UNCHANGED <<args, tvars, cvars, nvars, avars, uvars>>

\* The tag service returns one tag more for the next call.
AddTag ==
    /\ "added" \in DOMAIN args
    /\ Len(result) = args.added + 1
    /\ args.added < MaxAddedTags
    /\ \E t \in VibeTags :
          args' = [tags |-> Append(args.tags, t), added |-> args.added + 1]
    /\ UNCHANGED <<result, tvars, cvars, nvars, avars, uvars>>

VibeNext == InferVibeCall \/ AddTag

SpecVibe == VibeInit /\ [][VibeNext]_vars

\* ---------------------------------------------------------- RateLimiter.stats
\* stats(): { ...this._stats, active, queue, concurrency, maxQueue }
Stats ==
    [executed |-> tstats.executed, queued |-> tstats.queued,
     failures |-> tstats.failures, active |-> active, queue |-> Len(queue),
     concurrency |-> concurrency, maxQueue |-> maxQueue]

\* ------------------------------------------------ nichePromises and the dedup
\* The start of nichePromises (line 1194) for a request with the one seed "a":
\* the candidates the earlier stages have left, and one callback per niche
\* artist, each with the deep cuts of its artist; a track of two niche artists
\* is among the deep cuts of both.
NicheItem(uri) == MinedItem(uri, "deep-cut", 70, 3)
NicheRaces ==
    {<<Branch(<<NicheItem("c")>>), Branch(<<NicheItem("c")>>)>>,
     <<Branch(<<NicheItem("c")>>), Branch(<<NicheItem("c")>>),
       Branch(<<NicheItem("f")>>)>>}
\* The uris mined before nichePromises, in insertion order (deep cuts of the
\* similar artists, their tag lookups unanswered).
MinedBefore == {<<>>, <<"e">>, <<"e", "d">>}

MiningInit ==
    /\ req = [token |-> TRUE, hasIds |-> TRUE, trackIds |-> <<"a">>]
    /\ pc = "niche"
    /\ uniqueTrackIds = <<"a">>
    /\ seedTracks = <<"a">>
    /\ \E ok \in BOOLEAN : playlistVibe = InferVibe(PooledTags(seedTracks, ok)).mood
    /\ topArtistIds = <<>>
    /\ relatedArtistSet = {}
    /\ \E before \in MinedBefore :
          /\ candidateTracks =
                 [i \in 1..Len(before) |->
                     Candidate(before[i], Weighted(75, Proximity(before[i]).weight),
                               Proximity(before[i]).circle, "lastfm",
                               VibeOf(before[i], FALSE).mood)]
          /\ uriSeen = Range(seedTracks) \cup Range(before)
          /\ failed = IF before = <<>> THEN {} ELSE {"getLastfmTags"}
    /\ branches \in NicheRaces
    /\ finalSelection = <<>>
    /\ res = NoResponse
    /\ called = {"getMe", "getTracks", "profile", "getRecommendations",
                 "getLastfmSimilarArtists", "getArtistDeepCuts"}
    /\ mined = <<>>
    /\ UtilsIdle /\ FunctionIdle /\ UpstreamIdle /\ NetworkIdle

MiningNext ==
    \/ \E i \in 1..Len(branches) : BranchCheck(i)
    \/ \E i \in 1..Len(branches) : BranchPush(i)
    \/ EraContext
    \/ Finish

SpecMining == MiningInit /\ [][MiningNext]_vars

\* --------------------------------------------- RateLimiter, abort never called
\* The RateLimiter with no call of abort(): the event loop runs every microtask,
\* and every running fn settles (its promise resolves or rejects).
ThrottleFairNext ==
    \/ Execute
    \/ StartTask
    \/ \E item \in running : TaskSucceeds(item)
    \/ \E item \in running : TaskFails(item)

ThrottleFairness ==
    /\ WF_vars(StartTask)
    /\ \A n \in Tasks : WF_vars(TaskSucceeds(Item(n)) \/ TaskFails(Item(n)))

SpecThrottleFair == ThrottleInit /\ [][ThrottleFairNext]_vars /\ ThrottleFairness

\* ------------------------------------------ ApiCache without priorities (LRU)
\* The second ApiCache class (lines 184-237): no priorities map, an entry is
\* {value, t} (its priority field is 0 here), set evicts the head of this.order.
Variants == {"priority", "plain"}

\* Lines 195-197 of set, c being the cache after this.del(key).
PlainStore(c, key, value, tset) ==
    [cache |-> MapSet(c.cache, key,
                      [key |-> key, value |-> value, t |-> tset, priority |-> 0]),
     priorities |-> c.priorities,
     order |-> Append(c.order, key)]

\* Lines 198-201: if (this.order.length > this.maxSize) { shift; delete }
PlainEvict(c) ==
    IF NeedsEviction(c)
    THEN [state |-> [cache |-> MapDelete(c.cache, Head(c.order)),
                     order |-> Tail(c.order),
                     priorities |-> c.priorities],
          evicted |-> <<Head(c.order)>>]
    ELSE [state |-> c, evicted |-> <<>>]

\* set(key, value) of the class without priorities
PlainSet(key, value) ==
    /\ \E r \in {PlainEvict(PlainStore(CacheDel(CacheState, key), key, value, now))} :
          /\ cache' = r.state.cache
          /\ order' = r.state.order
          /\ priorities' = r.state.priorities
          /\ clast' = [op |-> "set", key |-> key, val |-> value, prio |-> 0,
                       evicted |-> r.evicted, after |-> "none"]
          /\ recent' = Accessed(recent, key, r.evicted)
    /\ UNCHANGED <<ttl, maxSize, cstats, now, variant, tvars, svars>>

\* An ApiCache of either class, just constructed.
LruInit == variant \in Variants /\ CacheConstructed

\* Either class driven with one value; get, del and clear read alike in both.
LruNext ==
    \/ variant = "priority" /\ \E key \in Keys, p \in Priorities, d \in {0, 1} :
          Set(key, "v1", TRUE, p, d)
    \/ variant = "priority" /\ \E key \in Keys, d \in {0, 1} :
          Set(key, "v1", FALSE, 0, d)
    \/ variant = "plain" /\ \E key \in Keys : PlainSet(key, "v1")
    \/ \E key \in Keys : Get(key)
    \/ \E key \in Keys : Del(key)
    \/ Clear
    \/ Tick

SpecCacheLru == LruInit /\ [][LruNext]_vars

\* ------------------------------------- assemblePlaylistBySections by itself
\* The function on small arguments: a target size, one subgroup per id of
\* SubgroupIds at most, with weights up to MaxWeight, and up to
\* MaxSectionCandidates candidates in descending finalScore (as /analyze passes
\* them, after its sort).
MaxTarget == 6
MaxWeight == 3
MaxSectionCandidates == 5
SectionWeights ==
    UNION {[1..m -> 1..MaxWeight] : m \in 1..Len(SubgroupIds)}

SectionsInit ==
    /\ \E t \in 0..MaxTarget : \E w \in SectionWeights :
       \E k \in 0..MaxSectionCandidates : \E pattern \in CandidatePatterns :
          args = [targetSize |-> t,
                  vibeSubgroups |-> SubgroupsOf(w),
                  candidates |-> CandidatesOf(k, Len(w), pattern)]
    /\ result = <<>>
    /\ UtilsIdle /\ AnalyzeIdle /\ UpstreamIdle /\ NetworkIdle

\* assemblePlaylistBySections(vibeSubgroups, candidates, targetSize), with the
\* quotas as they are after the two loops.
AssembleSections ==
    /\ result = <<>>
    /\ result' = <<[quotas |-> Quotas(args.vibeSubgroups, args.candidates,
                                      args.targetSize),
                    selection |-> AssemblePlaylistBySections(args.vibeSubgroups,
                                      args.candidates, args.targetSize)]>>
    /\ UNCHANGED <<args, tvars, cvars, nvars, avars, uvars>>

SectionsNext == AssembleSections

SpecSections == SectionsInit /\ [][SectionsNext]_vars

\* ------------------------------------------ the contextual filter on a track
\* Lines 1298-1313 for one candidate: genreMatches seed genres among its genres,
\* its decade 'Unknown', a seed decade of the playlist era, a seed decade, or
\* none of the seed decades, and its _circle. Multipliers in hundredths.
GenreMatches == 0..3
Decades == {"unknown", "era", "seed", "other"}
Circles == 1..4
\* The similarity mining gives a track without audio features: the simScore of
\* its strategy times the weight of its classification.
MinedSimilarities ==
    {Weighted(base, w) : base \in {70, 75, 80, 90}, w \in {100, 108, 115, 130}}

\* genreMatches > 0 ? Math.min(1 + 0.06 * genreMatches, 1.18) : 0.70
GenreMultiplierOf(genreMatches) ==
    IF genreMatches > 0 THEN Min(100 + 6 * genreMatches, 118) ELSE 70
\* decadeMultiplier (lines 1301-1303)
DecadeMultiplier(candDec) ==
    IF candDec = "unknown" THEN 97
    ELSE IF candDec = "era" THEN 115
    ELSE IF candDec = "seed" THEN 108 ELSE 92

ContextInit ==
    /\ args \in [similarity : MinedSimilarities, genreMatches : GenreMatches,
                 candDec : Decades, circle : Circles]
    /\ result = <<>>
    /\ UtilsIdle /\ AnalyzeIdle /\ UpstreamIdle /\ NetworkIdle

\* The map and the filter of lines 1290-1313 on the candidate: its new
\* similarity and whether it stays in candidateTracks.
ContextAdjust ==
    /\ result = <<>>
    /\ \E newSim \in {CombinedSim(args.similarity, GenreMultiplierOf(args.genreMatches),
                                  DecadeMultiplier(args.candDec),
                                  ProximityMultiplier(args.circle))} :
          result' = <<[similarity |-> newSim, kept |-> Survives(newSim)]>>
    /\ UNCHANGED <<args, tvars, cvars, nvars, avars, uvars>>

ContextNext == ContextAdjust

SpecContext == ContextInit /\ [][ContextNext]_vars

\* -------------------------------------------- exploreArtistNetworkViaLastfm
\* The depth /analyze passes (line 977) and the default of the parameter.
Depth == 2
ArtistNames == {"w", "x", "y", "z"}
\* The similar artists Last.fm gives (match > 0.4), by artist: a cycle through
\* the four names, and a graph in which names are reached along several paths.
SimilarGraphs ==
    {[n \in ArtistNames |->
         CASE n = "w" -> <<"x">> [] n = "x" -> <<"y">>
           [] n = "y" -> <<"z">> [] OTHER -> <<"w">>],
     [n \in ArtistNames |->
         CASE n = "w" -> <<"x", "y">> [] n = "x" -> <<"y", "z">>
           [] n = "y" -> <<"x", "w">> [] OTHER -> <<>>]}
\* The first artist of each seed track; two seeds may be by the same artist.
SeedNameLists == {<<>>, <<"w">>, <<"w", "x">>, <<"w", "w">>}

\* An item of the queue.
QueueItem(name, level) == [name |-> name, level |-> level]
\* network.set(name, {..., level})
NetworkSet(net, name, level) ==
    {e \in net : e.name # name} \cup {QueueItem(name, level)}
\* similarArtists.slice(0, level === 0 ? 10 : 5)
SearchLimit(level) == IF level = 0 THEN 10 ELSE 5

\* Lines 607-614: the queue of the seeds' artists at level 0, visited.
ExploreInit ==
    /\ seedNames \in SeedNameLists
    /\ similarOf \in SimilarGraphs
    /\ network = {}
    /\ artistQueue = [i \in 1..Len(seedNames) |-> QueueItem(seedNames[i], 0)]
    /\ visited = Range(seedNames)
    /\ current = <<>>
    /\ searches = <<>>
    /\ epc = "loop"
    /\ enqueued = seedNames
    /\ dequeued = <<>>
    /\ UtilsIdle /\ AnalyzeIdle /\ FunctionIdle /\ UpstreamIdle

\* if (level > depth) continue
TooDeep(level) == level > Depth

\* while (queue.length > 0) { const {name, spotifyId, level} = queue.shift(); ...
Dequeue ==
    /\ epc = "loop"
    /\ artistQueue # <<>>
    /\ artistQueue' = Tail(artistQueue)
    /\ dequeued' = Append(dequeued, Head(artistQueue).level)
    /\ IF TooDeep(Head(artistQueue).level)
       THEN UNCHANGED <<current, epc>>
       ELSE /\ current' = <<Head(artistQueue)>>
            /\ epc' = "artist"
    /\ UNCHANGED <<seedNames, similarOf, network, visited, searches, enqueued,
                   tvars, cvars, avars, fvars, uvars>>

\* Lines 619-643: getArtist, or searchArtists when it fails, then network.set;
\* when the search fails too the outer catch ends the turn.
RecordArtist ==
    /\ epc = "artist"
    /\ \E answered \in BOOLEAN :
          IF answered
          THEN /\ network' = NetworkSet(network, current[1].name, current[1].level)
               /\ epc' = "similar"
               /\ UNCHANGED current
          ELSE /\ epc' = "loop"
               /\ current' = <<>>
               /\ UNCHANGED network
    /\ UNCHANGED <<seedNames, similarOf, artistQueue, visited, searches, enqueued,
                   dequeued, tvars, cvars, avars, fvars, uvars>>

\* Lines 644-649: artist.getsimilar and the start of searchPromises; a failure
\* is caught by the outer catch.
GetSimilar ==
    /\ epc = "similar"
    /\ \E answered \in BOOLEAN :
          IF answered
          THEN /\ searches' =
                     LET sim == SliceTo(similarOf[current[1].name],
                                        SearchLimit(current[1].level))
                     IN [i \in 1..Len(sim) |-> [name |-> sim[i], st |-> "check"]]
               /\ epc' = "searching"
               /\ UNCHANGED current
          ELSE /\ epc' = "loop"
               /\ current' = <<>>
               /\ UNCHANGED searches
    /\ UNCHANGED <<seedNames, similarOf, network, artistQueue, visited, enqueued,
                   dequeued, tvars, cvars, avars, fvars, uvars>>

\* if (visited.has(simNameLower)) return; else await searchArtists(simName)
SearchCheck(i) ==
    /\ epc = "searching"
    /\ searches[i].st = "check"
    /\ searches' = [searches EXCEPT ![i].st =
                       IF searches[i].name \in visited THEN "done" ELSE "await"]
    /\ UNCHANGED <<seedNames, similarOf, network, artistQueue, visited, current,
                   epc, enqueued, dequeued, tvars, cvars, avars, fvars, uvars>>

\* The callback resumes after searchArtists: the artist is found with a genre
\* of the seeds (accept), or not, or the search failed (caught).
SearchResume(i) ==
    /\ epc = "searching"
    /\ searches[i].st = "await"
    /\ searches' = [searches EXCEPT ![i].st = "done"]
    /\ \E accept \in BOOLEAN :
          IF accept /\ current[1].level < Depth
          THEN /\ visited' = visited \cup {searches[i].name}
               /\ artistQueue' = Append(artistQueue,
                                        QueueItem(searches[i].name, current[1].level + 1))
               /\ enqueued' = Append(enqueued, searches[i].name)
          ELSE UNCHANGED <<visited, artistQueue, enqueued>>
    /\ UNCHANGED <<seedNames, similarOf, network, current, epc, dequeued,
                   tvars, cvars, avars, fvars, uvars>>

\* await Promise.all(searchPromises): back to the head of the while-loop.
SearchesDone ==
    /\ epc = "searching"
    /\ \A i \in 1..Len(searches) : searches[i].st = "done"
    /\ searches' = <<>>
    /\ current' = <<>>
    /\ epc' = "loop"
    /\ UNCHANGED <<seedNames, similarOf, network, artistQueue, visited, enqueued,
                   dequeued, tvars, cvars, avars, fvars, uvars>>

\* The queue is empty: return network.
ExploreReturn ==
    /\ epc = "loop"
    /\ artistQueue = <<>>
    /\ epc' = "done"
    /\ UNCHANGED <<seedNames, similarOf, network, artistQueue, visited, current,
                   searches, enqueued, dequeued, tvars, cvars, avars, fvars, uvars>>

ExploreNext ==
    \/ Dequeue
    \/ RecordArtist
    \/ GetSimilar
    \/ \E i \in 1..Len(searches) : SearchCheck(i)
    \/ \E i \in 1..Len(searches) : SearchResume(i)
    \/ SearchesDone
    \/ ExploreReturn

SpecExplore == ExploreInit /\ [][ExploreNext]_vars

\* Every upstream call settles and the event loop runs every callback.
SpecExploreFair == SpecExplore /\ WF_vars(ExploreNext)

\* ------------------------------------ the task bodies server.js hands to execute
\* A variant in which the fn of a task calls execute on the same limiter
\* for the next task and awaits it.
FnSubmitsNext(fn) == IF fn < MaxTasks THEN {fn + 1} ELSE {}

\* The tasks the fn of a task submits to its own limiter and awaits: none.
\* Every fn passed to lastfmLimiter.execute or spotifyLimiter.execute is one
\* upstream request (api.*, fetch), and the async body of
\* getLastfmSimilarArtists reads the cache, fetches and writes the cache.
FnSubmits(fn) == {}

\* The task execute is about to accept is submitted by the pipeline, or by
\* the fn that awaits it while that fn runs.
CallerRuns(n) == \A m \in Tasks : n \in FnSubmits(m) => Item(m) \in running

\* execute(fn) as server.js calls it.
PipelineExecute == CallerRuns(nextTask + 1) /\ Execute

\* The fn of a running task settles once everything it awaits has settled.
FnSettles(item) ==
    /\ \A n \in FnSubmits(item.fn) : promise[n].st \in {"resolved", "rejected"}
    /\ TaskSucceeds(item) \/ TaskFails(item)

PipelineNext ==
    \/ PipelineExecute
    \/ StartTask
    \/ \E item \in running : FnSettles(item)

\* The event loop runs every microtask, and every upstream request settles.
PipelineFairness ==
    /\ WF_vars(StartTask)
    /\ \A n \in Tasks : WF_vars(FnSettles(Item(n)))

SpecPipelineThrottle == ThrottleInit /\ [][PipelineNext]_vars /\ PipelineFairness

\* ------------------------------------------------------- stats() of the ApiCache
RECURSIVE PriorityStats(_, _, _)
\* The for-loop of stats() over this.priorities.entries(), from entry i on:
\* priorityStats as the list of its [priority, count] properties.
PriorityStats(prios, i, acc) ==
    IF i > Len(prios) THEN acc
    ELSE PriorityStats(prios, i + 1,
             IF \E j \in 1..Len(acc) : acc[j].priority = prios[i].priority
             THEN [j \in 1..Len(acc) |->
                     IF acc[j].priority = prios[i].priority
                     THEN [acc[j] EXCEPT !.count = @ + 1]
                     ELSE acc[j]]
             ELSE Append(acc, [priority |-> prios[i].priority, count |-> 1]))

\* stats() of the ApiCache with priorities
CacheStats ==
    [hits |-> cstats.hits,
     misses |-> cstats.misses,
     size |-> Len(cache),
     ttl |-> ttl,
     priorityDistribution |-> PriorityStats(priorities, 1, <<>>)]

\* --------------------------------- detectVibeSubgroupsByMetadata on its seeds
MaxSubgroupSeeds == 3
SubgroupSeeds == {"a", "b", "c", "d", "e"}
\* What inferVibe(seed, key, 'track') does for a seed: it returns the vibe of
\* the seed's tags, or the vibe of no tag (getLastfmTags caught a failure and
\* returned []), or it throws.
LookupOutcomes == {"tags", "empty", "throws"}

\* The seed lists of up to n tracks, no track twice.
SubgroupSeedLists(n) ==
    UNION {{s \in [1..k -> SubgroupSeeds] : \A i, j \in 1..k : i # j => s[i] # s[j]}
           : k \in 0..n}

\* Lines 324-330: mood, subMood and tags of a seed, by the outcome of inferVibe.
SeedVibe(uri, outcome) ==
    IF outcome = "throws" THEN NeutralVibe
    ELSE VibeOf(uri, outcome = "tags")

SubgroupsInit ==
    /\ \E seeds \in SubgroupSeedLists(MaxSubgroupSeeds) :
       \E outcomes \in [1..Len(seeds) -> LookupOutcomes] :
          args = [seedTracks |-> seeds, lookups |-> outcomes]
    /\ result = <<>>
    /\ UtilsIdle /\ AnalyzeIdle /\ UpstreamIdle /\ NetworkIdle

\* One call of detectVibeSubgroupsByMetadata(seedTracks, lastfmApiKey).
DetectSubgroups ==
    /\ "lookups" \in DOMAIN args
    /\ result = <<>>
    /\ result' = <<DetectVibeSubgroupsByMetadata(
                       args.seedTracks,
                       [i \in 1..Len(args.seedTracks) |->
                           SeedVibe(args.seedTracks[i], args.lookups[i])],
                       SeedArtists(args.seedTracks))>>
    /\ UNCHANGED <<args, tvars, cvars, nvars, avars, uvars>>

SubgroupsNext == DetectSubgroups

SpecSubgroups == SubgroupsInit /\ [][SubgroupsNext]_vars

\* ------------------------------------------------- properties of server.js
\* The (circle, weight) pairs the classifier may return, weight in hundredths.
CirclePairs == {[circle |-> 1, weight |-> 130], [circle |-> 2, weight |-> 115],
                [circle |-> 3, weight |-> 108], [circle |-> 4, weight |-> 100]}
\* The ids the artists of the seeds carry.
SeedIdsOf(seedArtists) == UNION {Range(seedArtists[i]) : i \in 1..Len(seedArtists)}

\* C20: every call of classifyCandidateByProximity on the same arguments returns
\* the same pair, one of (1,1.30), (2,1.15), (3,1.08), (4,1.00); it is circle 1
\* exactly when an artist id of the track is a seed artist id, circle 2 exactly
\* when none is but one is a taste-profile id, circle 3 exactly when neither
\* holds but one is a related id, and circle 4 exactly when none matches.
C20_ClassifyHasStrictPrecedence ==
    \A i \in 1..Len(result) :
        LET ids == Range(args.track) \ {NoId}
            seed == ids \cap SeedIdsOf(args.seedTracks) # {}
            top == ids \cap Range(args.topArtistIds) # {}
            rel == ids \cap args.relatedArtistSet # {}
        IN /\ result[i] \in CirclePairs
           /\ result[i] = result[1]
           /\ (result[i].circle = 1) = seed
           /\ (result[i].circle = 2) = (~seed /\ top)
           /\ (result[i].circle = 3) = (~seed /\ ~top /\ rel)
           /\ (result[i].circle = 4) = (~seed /\ ~top /\ ~rel)

\* A track of a seed artist who is also a taste-profile artist and a related
\* artist was classified twice.
C20_Witness ==
    /\ Len(result) = 2
    /\ result[2].circle = 1
    /\ Range(args.track) \cap Range(args.topArtistIds) # {}
    /\ Range(args.track) \cap args.relatedArtistSet # {}

\* C13: with n seeds and k candidates handed to the assembly, the assembled list
\* has at most n + targetSize entries and exactly n + min(targetSize, k), where
\* targetSize = min(60, 40 + n) - n.
C13_AssembledLengthIsSeedsPlusMin ==
    \A i \in 1..Len(result) :
        LET n == Len(args.seedTracks)
            k == Len(args.candidateTracks)
            targetSize == (IF 40 + n < 60 THEN 40 + n ELSE 60) - n
        IN /\ result[i].targetSize = targetSize
           /\ Len(result[i].finalPlaylist) <= n + targetSize
           /\ Len(result[i].finalPlaylist)
                  = n + (IF targetSize < k THEN targetSize ELSE k)

\* More candidates than the target size, all of one of two subgroups, were
\* assembled: the sections alone do not fill the list.
C13_Witness ==
    /\ Len(result) = 1
    /\ Len(args.candidateTracks) > result[1].targetSize
    /\ Len(args.vibeSubgroups) = 2
    /\ \A i \in 1..Len(args.candidateTracks) :
          args.candidateTracks[i].subgroupId = args.candidateTracks[1].subgroupId
    /\ Len(result[1].finalSelection) = result[1].targetSize

\* The uris of a list of records.
UrisOf(ts) == [i \in 1..Len(ts) |-> ts[i].uri]
\* No two places of a sequence hold the same value.
NoRepeat(q) == \A i, j \in 1..Len(q) : i # j => q[i] # q[j]

\* C11: the track list of a successful response never holds two entries with
\* the same uri: no candidate uri twice, no candidate uri equal to a seed uri,
\* no seed uri twice.
C11_FinalListHasNoDuplicateUri ==
    res.status = 200 =>
        /\ NoRepeat(UrisOf(res.tracks))
        /\ NoRepeat(seedTracks)
        /\ NoRepeat(UrisOf(finalSelection))
        /\ Range(UrisOf(finalSelection)) \cap Range(seedTracks) = {}

\* Two branches pushed the same track during mining, and the request was
\* answered with a list that holds that track.
C11_Witness ==
    /\ res.status = 200
    /\ ~NoRepeat(UrisOf(mined))
    /\ \E i, j \in 1..Len(mined) :
          /\ i # j
          /\ mined[i].uri = mined[j].uri
          /\ mined[i].uri \in Range(UrisOf(finalSelection))
    /\ Len(seedTracks) = 2

\* The call sites of the mining strategies and of the per-candidate enrichment.
MiningSites == {"getRecommendations", "getLastfmSimilarArtists", "getLastfmTags",
                "getArtistDeepCuts", "getArtistsFromSameEra"}

\* C12: a request in which exactly one upstream call of a mining strategy or of
\* an enrichment step failed never ends in an error response caused by that
\* failure: it goes on to scoring and assembly.
C12_MiningFailureIsSkipped ==
    pc = "done" /\ Cardinality(failed) = 1 /\ failed \subseteq MiningSites
        => res.error[1] # "upstream"

\* C14: the track list of a successful response begins with every seed track,
\* each with similarity 100, in the order of the request's ids, and goes on with
\* the assembled selection, entry by entry.
C14_SeedsFirstThenSelection ==
    res.status = 200 =>
        LET n == Len(seedTracks) IN
        /\ Len(res.tracks) = n + Len(finalSelection)
        /\ \A i \in 1..n : /\ res.tracks[i].uri = seedTracks[i]
                           /\ res.tracks[i].similarity = 100
        /\ \A i \in 1..Len(finalSelection) :
              /\ res.tracks[n + i].uri = finalSelection[i].uri
              /\ res.tracks[n + i].similarity = finalSelection[i].similarity
        /\ \A i, j \in 1..n :
              i < j => \E a, b \in 1..Len(req.trackIds) :
                          /\ a < b
                          /\ req.trackIds[a] = seedTracks[i]
                          /\ req.trackIds[b] = seedTracks[j]
                          /\ \A c \in 1..(b - 1) : req.trackIds[c] # seedTracks[j]

\* Two seeds were found and two candidates selected, one of which scored above
\* 100 before the cap and stands behind the seeds all the same.
C14_Witness ==
    /\ res.status = 200
    /\ Len(seedTracks) = 2
    /\ Len(finalSelection) >= 2
    /\ \E i \in 1..Len(finalSelection) : finalSelection[i].similarity = 100

\* C18: when no candidate is left after mining, dedup and the contextual
\* filter, the request ends with an error and no track list, and a successful
\* response always carries a selected candidate.
C18_NoCandidatesIsTerminal ==
    /\ pc = "done" /\ "getArtistsGenres" \in called /\ candidateTracks = <<>>
           => res = ErrorResponse(500, NoCandidatesError)
    /\ res.status = 200 => finalSelection # <<>> /\ candidateTracks # <<>>
    /\ res.status # 200 => res.tracks = <<>>

\* Candidates were mined for a request with a seed, the contextual filter
\* dropped them all, and the request failed.
C18_Witness ==
    /\ pc = "done"
    /\ seedTracks # <<>>
    /\ mined # <<>>
    /\ candidateTracks = <<>>
    /\ res.error = NoCandidatesError

\* The mood inferred from the tags of a selected track.
InferredMood(c) ==
    IF c.inferred = "none" THEN InferVibe(TagsOf(c.uri)).mood ELSE c.inferred
\* The mood-adjacency table of isVibeMatchByMetadata.
MoodCompatible(mood, playlistMood) ==
    mood = playlistMood \/ mood \in Compatible[playlistMood]

\* C19: no track of the final list that is an era-context track or a circle-1
\* track has an inferred mood incompatible with the playlist mood.
C19_IncompatibleMoodExcluded ==
    res.status = 200 =>
        \A i \in 1..Len(finalSelection) :
            LET c == finalSelection[i] IN
            (c.source = "era-context" \/ c.circle = 1 \/ c.finalCircle = 1)
                => MoodCompatible(InferredMood(c), playlistVibe)

\* The places of a list of ids that hold a non-blank id, and those that hold
\* the first occurrence of one.
NonBlank(ids) == {i \in 1..Len(ids) : ids[i] \notin {"", " "}}
FirstOccurrences(ids) ==
    {i \in NonBlank(ids) : \A j \in 1..(i - 1) : ids[j] # ids[i]}
\* u lists the non-blank ids of ids once each, in the order of first occurrence.
KeepsFirstOccurrences(u, ids) ==
    /\ Len(u) = Cardinality(FirstOccurrences(ids))
    /\ \A p \in 1..Len(u) :
          \E i \in FirstOccurrences(ids) :
              /\ ids[i] = u[p]
              /\ Cardinality({j \in FirstOccurrences(ids) : j < i}) = p - 1
\* The id list of the request is missing, empty, or holds blank ids only.
InvalidList == ~req.hasIds \/ NonBlank(req.trackIds) = {}
\* Past the validation of a request whose list is not invalid, the ids the
\* handler works with are the request's, deduplicated in first-occurrence order.
DedupKeepsOrder ==
    ~InvalidList /\ (pc \notin {"start", "done"} \/ called # {})
        => KeepsFirstOccurrences(uniqueTrackIds, req.trackIds)

\* C17 as stated: a request whose id list is missing, empty, or empty without
\* its blank ids fails with an input error before any upstream call; otherwise
\* the duplicates are removed, the first occurrences keeping their order.
C17_InvalidListIsInputError ==
    /\ InvalidList /\ pc # "start"
           => /\ pc = "done"
              /\ called = {}
              /\ res.status = 400
              /\ res.error \in {InputErrorNone, InputErrorInvalid}
    /\ DedupKeepsOrder

\* C17, amended: such a request fails before any upstream call, with the input
\* error (status 400) if it carries an access token and with the missing-token
\* error (status 500) if it does not; otherwise the duplicates are removed, the
\* first occurrences keeping their order.
C17_InvalidListFailsBeforeUpstream ==
    /\ InvalidList /\ pc # "start"
           => /\ pc = "done"
              /\ called = {}
              /\ req.token => /\ res.status = 400
                              /\ res.error \in {InputErrorNone, InputErrorInvalid}
              /\ ~req.token => res = ErrorResponse(500, TokenError)
    /\ DedupKeepsOrder

\* A request with a token and three blank ids was refused with the input error.
C17_Witness ==
    /\ req.token
    /\ Len(req.trackIds) = MaxIds
    /\ NonBlank(req.trackIds) = {}
    /\ pc = "done"
    /\ res = ErrorResponse(400, InputErrorInvalid)
    /\ called = {}

\* The calls to service s that are sent and not answered.
InFlight(s) == {c \in CallIds : ServiceOf(SiteOf(c)) = s /\ calls[c] \in InFlightStates}

\* C15: at every moment, over the callbacks of all requests, at most 2 calls to
\* the tag/similarity service and at most 5 calls to the catalog service are in
\* flight, every call in flight being a running task of the limiter of its
\* service.
C15_InFlightWithinConcurrency ==
    /\ Cardinality(InFlight("lastfm")) <= 2
    /\ Cardinality(InFlight("spotify")) <= 5
    /\ \A s \in Services :
          /\ Cardinality(InFlight(s)) <= limiters[s].active
          /\ limiters[s].active <= limiters[s].concurrency
    /\ \A c \in CallIds :
          calls[c] \in InFlightStates => LimiterOf(SiteOf(c)) = ServiceOf(SiteOf(c))

\* The catalog service is at its cap with calls of two requests, and a further
\* call waits in the queue of its limiter.
C15_Witness ==
    /\ Cardinality(InFlight("spotify")) = 5
    /\ \E c, d \in InFlight("spotify") : Plan[c[1]].request # Plan[d[1]].request
    /\ limiters["spotify"].queue # <<>>

\* Callback b has nothing left to do, or holds the call that stalled.
BranchCompleted(b) ==
    \/ \A c \in CallIds : c[1] = b => calls[c] \in SettledStates
    \/ \E c \in CallIds : c[1] = b /\ calls[c] \in {"rejected", "refused"}
BranchStalled(b) == \E c \in CallIds : c[1] = b /\ calls[c] = "stalled"

\* C16: with one call that never settles, every callback that does not hold
\* that call runs to completion, and every call such a callback hands to a
\* limiter is eventually started and settled.
C16_StallBlocksOnlyItsBranch ==
    /\ \A b \in DOMAIN Plan : <>(BranchCompleted(b) \/ BranchStalled(b))
    /\ \A c \in (DOMAIN Plan) \X (1..2) :
          (c \in CallIds /\ calls[c] = "queued")
              ~> (c \in CallIds /\ (calls[c] \in SettledStates \/ BranchStalled(c[1])))

\* A call of one callback has stalled and every other callback has completed,
\* among them one whose call waited in the queue of the same limiter.
C16_Witness ==
    /\ \E b \in UpstreamBranches :
          /\ BranchStalled(b)
          /\ calls[<<b, 1>>] = "stalled"
          /\ \A o \in UpstreamBranches \ {b} : BranchCompleted(o) /\ ~BranchStalled(o)
    /\ \A b \in 1..FairSimilarBranches : calls[<<b, 1>>] \in {"stalled", "resolved"}

\* The band of the claim for a rounded mean year.
EraBand(y) ==
    CASE y < 1980 -> "classic"
      [] y >= 1980 /\ y <= 1989 -> "80s"
      [] y >= 1990 /\ y <= 1997 -> "90s"
      [] y >= 1998 /\ y <= 2003 -> "late-90s-early-2000s"
      [] y >= 2004 /\ y <= 2009 -> "mid-2000s"
      [] y >= 2010 /\ y <= 2014 -> "early-2010s"
      [] y >= 2015 /\ y <= 2019 -> "late-2010s"
      [] y >= 2020 -> "2020s"
\* The years of the seeds that count: present and above 1950.
CountedYears(ys) == {ys[i] : i \in 1..Len(ys)} \ (0..1950)

\* C21: detectCulturalEra gives the band of the rounded mean of the seed years
\* above 1950 (classic < 1980, 80s, 90s = 1990..1997, late-90s-early-2000s =
\* 1998..2003, mid-2000s = 2004..2009, early-2010s, late-2010s, 2020s >= 2020),
\* so [2003,2005] is mid-2000s and [1999,2001] late-90s-early-2000s;
\* isFocusedEra holds iff max year - min year <= 5; without a valid year the
\* result is contemporary, focused, with timeRange [currentYear, currentYear].
C21_EraBandsAndFocus ==
    \A i \in 1..Len(result) :
        LET ys == args.seedYears
            counted == CountedYears(ys)
            total == SumSeq(SelectSeq(ys, LAMBDA y : y \in counted))
            n == Len(SelectSeq(ys, LAMBDA y : y \in counted))
            r == result[i]
        IN IF counted = {}
           THEN /\ r.culturalEra = "contemporary"
                /\ r.isFocusedEra
                /\ r.timeRange = <<args.currentYear, args.currentYear>>
           ELSE /\ r.avgYear * n * 2 <= 2 * total + n
                /\ 2 * total + n < (r.avgYear + 1) * n * 2
                /\ r.culturalEra = EraBand(r.avgYear)
                /\ r.isFocusedEra
                       = (\A a, b \in counted : a - b <= 5)
                /\ ys = <<2003, 2005>> => r.culturalEra = "mid-2000s"
                /\ ys = <<1999, 2001>> => r.culturalEra = "late-90s-early-2000s"

\* The seeds of 2003 and 2005 were classified: mean 2004, the first year of
\* mid-2000s, spread 2.
C21_Witness ==
    /\ Len(result) = 1
    /\ args.seedYears = <<2003, 2005>>
    /\ result[1].avgYear = 2004
    /\ result[1].culturalEra = "mid-2000s"
    /\ result[1].isFocusedEra

\* The keyword sets of the claim.
MelancholicKeywords == {"sad", "melancholy", "depressing", "emotional"}
PartyKeywords == {"party", "dance", "club", "energetic"}
ChillKeywords == {"chill", "relaxing", "mellow", "ambient"}
\* How often tag t stands in the list ts.
Occurrences(ts, t) == Cardinality({i \in 1..Len(ts) : ts[i] = t})
\* top is a choice of the (at most) 5 most frequent tags of ts.
IsTopFive(top, ts) ==
    /\ Len(top) = (IF Cardinality(Range(ts)) < 5 THEN Cardinality(Range(ts)) ELSE 5)
    /\ Range(top) \subseteq Range(ts)
    /\ Cardinality(Range(top)) = Len(top)
    /\ \A t \in Range(top) : \A u \in Range(ts) \ Range(top) :
          Occurrences(ts, u) <= Occurrences(ts, t)

\* C22: the mood is melancholic if any of the top 5 tags is a melancholic
\* keyword, whatever party or chill keywords stand beside it; otherwise party
\* if any is a party keyword; otherwise chill if any is a chill keyword;
\* otherwise neutral.
C22_MoodIsFirstMatch ==
    \A i \in 1..Len(result) :
        LET top == Range(result[i].vibe.tags)
            mood == result[i].vibe.mood
        IN /\ IsTopFive(result[i].vibe.tags, result[i].of)
           /\ top \cap MelancholicKeywords # {} => mood = "melancholic"
           /\ top \cap MelancholicKeywords = {} /\ top \cap PartyKeywords # {}
                  => mood = "party"
           /\ top \cap MelancholicKeywords = {} /\ top \cap PartyKeywords = {}
                  /\ top \cap ChillKeywords # {} => mood = "chill"
           /\ top \cap (MelancholicKeywords \cup PartyKeywords \cup ChillKeywords) = {}
                  => mood = "neutral"

\* The party keyword was returned twice and the melancholic keyword once, both
\* are among the top 5 beside the chill keyword, and the mood is melancholic.
C22_Witness ==
    /\ Len(result) = 1
    /\ Occurrences(result[1].of, "party") = 2
    /\ Occurrences(result[1].of, "sad") = 1
    /\ {"sad", "party", "chill"} \subseteq Range(result[1].vibe.tags)
    /\ Cardinality(Range(result[1].of)) > 5
    /\ result[1].vibe.mood = "melancholic"

\* C23: with n tags in total, confidence = min(90, max(20, 15 n)): it lies in
\* [20, 90], a call with more tags never gives a lower confidence, and without
\* tags the profile is neutral with confidence 20.
C23_ConfidenceClampedMonotone ==
    \A i \in 1..Len(result) :
        LET n == Len(result[i].of)
            c == result[i].vibe.confidence
        IN /\ c = (IF 15 * n < 20 THEN 20 ELSE IF 15 * n > 90 THEN 90 ELSE 15 * n)
           /\ 20 <= c /\ c <= 90
           /\ n = 0 => result[i].vibe.mood = "neutral" /\ c = 20
           /\ \A j \in 1..Len(result) :
                 Len(result[j].of) <= n => result[j].vibe.confidence <= c

\* inferVibe was called with 6 tags and again with a 7th: the confidence is 90
\* both times.
C23_Witness ==
    /\ Len(result) = 2
    /\ Len(result[1].of) = 6
    /\ Len(result[2].of) = 7
    /\ result[1].vibe.confidence = 90
    /\ result[2].vibe.confidence = 90

\* C24: after any sequence of execute calls, task completions and aborts, the
\* queued count of stats() is the number of tasks waiting, the active count the
\* number of tasks running, executed the number of tasks that completed with
\* success and failures the number of tasks rejected or failed.
C24_StatsMatchState ==
    /\ Stats.queued = Len(queue)
    /\ Stats.active = Cardinality(running) + Len(microtasks)
    /\ Stats.executed = Cardinality({t \in Submitted : promise[t].st = "resolved"})
    /\ Stats.failures = Cardinality({t \in Submitted : promise[t].st = "rejected"})

\* C25: at every point during mining, whatever the interleaving of the branches
\* at their awaits, the candidate list holds no two entries with the same uri
\* and never more than MAX_CANDIDATES entries.
C25_MiningListUniqueAndCapped ==
    pc \in MiningStages =>
        /\ NoRepeat(UrisOf(candidateTracks))
        /\ Len(candidateTracks) <= MAX_CANDIDATES

\* The first record of a uri in a candidate list, and the uris that several
\* records of the list carry.
FirstRecord(cs, uri) ==
    cs[CHOOSE i \in 1..Len(cs) : cs[i].uri = uri /\ \A j \in 1..(i - 1) : cs[j].uri # uri]
DuplicatedUris(cs) ==
    {cs[i].uri : i \in {k \in 1..Len(cs) : \E j \in 1..Len(cs) : j # k /\ cs[j].uri = cs[k].uri}}

\* C26: when several branches have appended a record with the same uri, the
\* dedup keeps the record appended first, with its source and similarity, and
\* the uri is in the deduplicated list whatever the order of the appends.
C26_FirstInsertedSurvivesDedup ==
    pc = "finish" =>
        \A uri \in DuplicatedUris(candidateTracks) :
            \E k \in 1..Len(UniqueCandidates(candidateTracks)) :
                UniqueCandidates(candidateTracks)[k] = FirstRecord(candidateTracks, uri)

\* The fn of task t has been invoked.
IsInvoked(t) == \E i \in 1..Len(invoked) : invoked[i] = t

\* C27: with no abort and every running task settling, every task execute has
\* accepted (its promise pending) is eventually started and its promise settled.
C27_AcceptedTaskStartsAndSettles ==
    \A t \in Tasks :
        (promise[t].st = "pending") ~> (IsInvoked(t) /\ promise[t].st # "pending")

\* A task that had to wait in the queue has been started and has settled.
C27_Witness ==
    \E t \in Tasks :
        /\ HasWaited(t)
        /\ IsInvoked(t)
        /\ promise[t].st \in {"resolved", "rejected"}
        /\ ~IsAborted(t)

\* The step is a set(key, ...) whose eviction was the plain LRU one: the set
\* of the class without priorities, or evictLowPriority with no key selected.
FallbackEviction ==
    /\ clast'.op = "set"
    /\ clast'.evicted # <<>>
    /\ \/ variant = "plain"
       \/ ~EvictVictim(CacheStore(CacheDel(CacheState, clast'.key), clast'.key,
                                  clast'.val, clast'.prio, now), now').found

\* C28: when the eviction is the plain LRU one, the key removed is the least
\* recently accessed one, a set and a get hit both counting as an access.
C28_FallbackEvictsLeastRecent ==
    [][FallbackEviction =>
          clast'.evicted = <<Head(Accessed(recent, clast'.key, <<>>))>>]_vars

\* The cache without priorities has evicted a key other than the one set, after
\* a get hit.
C28_Witness ==
    /\ variant = "plain"
    /\ clast.op = "set"
    /\ clast.evicted # <<>>
    /\ clast.evicted # <<clast.key>>
    /\ cstats.hits > 0
    /\ Len(order) > 1

\* The weight of the subgroup a candidate is assigned to.
WeightOfGroup(id) ==
    LET gs == args.vibeSubgroups
    IN gs[CHOOSE i \in 1..Len(gs) : gs[i].id = id].weight
\* sel[1..s] is made of sections: by decreasing subgroup weight, each subgroup
\* in one run, in descending finalScore, the best of its pool, within its quota.
IsSections(sel, s, quotas) ==
    /\ \A i, j \in 1..s :
          i < j => /\ WeightOfGroup(sel[i].subgroupId) >= WeightOfGroup(sel[j].subgroupId)
                   /\ sel[i].subgroupId = sel[j].subgroupId =>
                         /\ sel[i].finalScore >= sel[j].finalScore
                         /\ \A k \in i..j : sel[k].subgroupId = sel[i].subgroupId
    /\ \A i \in 1..s : \A n \in 1..Len(args.candidates) :
          LET c == args.candidates[n]
          IN (c.subgroupId = sel[i].subgroupId /\ \A k \in 1..s : sel[k] # c)
                 => sel[i].finalScore >= c.finalScore
    /\ \A g \in 1..Len(quotas) :
          Cardinality({i \in 1..s : sel[i].subgroupId = quotas[g].id}) <= quotas[g].n
\* sel[s+1..] is the backfill: the best candidates not yet in the list, in
\* descending finalScore.
IsBackfill(sel, s) ==
    /\ \A i, j \in (s + 1)..Len(sel) : i < j => sel[i].finalScore >= sel[j].finalScore
    /\ \A i \in (s + 1)..Len(sel) : \A n \in 1..Len(args.candidates) :
          (\A k \in 1..Len(sel) : sel[k] # args.candidates[n])
              => sel[i].finalScore >= args.candidates[n].finalScore

\* C29: the list is sections by decreasing subgroup weight, each in descending
\* finalScore and within its quota, then the best remaining candidates up to
\* targetSize; every quota is at least 1 and the quotas sum to targetSize
\* whenever targetSize is at least the number of subgroups (both loops ended).
C29_SectionsQuotasBackfill ==
    result # <<>> =>
        LET sel == result[1].selection
            quotas == result[1].quotas
            t == args.targetSize
        IN /\ \A g \in 1..Len(quotas) : quotas[g].n >= 1
           /\ Len(quotas) = Len(args.vibeSubgroups)
           /\ t >= Len(quotas) => SumSeq([g \in 1..Len(quotas) |-> quotas[g].n]) = t
           /\ Len(sel) = Min(t, Len(args.candidates))
           /\ \E s \in 0..Len(sel) : IsSections(sel, s, quotas) /\ IsBackfill(sel, s)

\* Two sections of different weights each filled to its quota, and a remainder
\* backfilled after them.
C29_Witness ==
    /\ result # <<>>
    /\ Len(args.vibeSubgroups) = 3
    /\ Len(result[1].selection) = args.targetSize
    /\ \E s \in 2..(Len(result[1].selection) - 1) :
          /\ IsSections(result[1].selection, s, result[1].quotas)
          /\ ~IsSections(result[1].selection, s + 1, result[1].quotas)
          /\ result[1].selection[1].subgroupId # result[1].selection[s].subgroupId
          /\ WeightOfGroup(result[1].selection[1].subgroupId)
                 > WeightOfGroup(result[1].selection[s].subgroupId)

\* C30: after the contextual multipliers a candidate is dropped exactly when
\* its adjusted similarity is below 50, and kept when it is 50 or more.
C30_DroppedExactlyBelowFifty ==
    result # <<>> => (result[1].kept <=> result[1].similarity >= 50)

\* The levels of a sequence never decrease.
NonDecreasing(ls) == \A i, j \in 1..Len(ls) : i < j => ls[i] <= ls[j]

\* C31: the items are visited breadth-first (by non-decreasing level), no
\* artist is recorded or expanded at a level above Depth, and no artist name
\* is put on the queue twice.
C31_BreadthFirstBoundedOnce ==
    /\ NonDecreasing(dequeued)
    /\ \A e \in network : e.level <= Depth
    /\ current # <<>> => current[1].level <= Depth
    /\ NoRepeat(enqueued)

\* The similarity a mined record has once the contextual filter has run.
PreJitter(o) ==
    IF seedTracks = <<>> THEN {o.similarity} ELSE {NewSim(o, m) : m \in BOOLEAN}

\* C32: the jitter touches finalScore only: finalScore lies between 0.85 and
\* 1.15 times similarity * proximity weight, similarity stays what the
\* contextual filter left, and that value is the one the final list reports.
C32_JitterOnlyInFinalScore ==
    (pc = "done" /\ res.status = 200) =>
        /\ \A i \in 1..Len(candidateTracks) :
              LET c == candidateTracks[i]
                  w == Proximity(c.uri).weight
              IN /\ 85 * c.similarity * w <= c.finalScore
                 /\ c.finalScore <= 115 * c.similarity * w
                 /\ c.similarity \in PreJitter(FirstRecord(mined, c.uri))
        /\ \A k \in 1..Len(finalSelection) :
              /\ \E i \in 1..Len(candidateTracks) : candidateTracks[i] = finalSelection[k]
              /\ res.tracks[Len(seedTracks) + k].uri = finalSelection[k].uri
              /\ res.tracks[Len(seedTracks) + k].similarity = finalSelection[k].similarity

\* A track of the final list whose finalScore was moved by the jitter.
C32_Witness ==
    /\ pc = "done"
    /\ res.status = 200
    /\ \E k \in 1..Len(finalSelection) :
          /\ finalSelection[k].finalScore
                 # 100 * finalSelection[k].similarity * Proximity(finalSelection[k].uri).weight
          /\ res.tracks[Len(seedTracks) + k].similarity = finalSelection[k].similarity

\* C33: while a task waits in the queue every slot is taken: active equals
\* concurrency, and so does the number of tasks started and not yet settled.
C33_NoIdleSlotWhileWaiting ==
    Len(queue) > 0 =>
        /\ active = concurrency
        /\ Cardinality(running) + Len(microtasks) = concurrency

\* A task waits behind a full set of slots after an earlier task has finished
\* and another has failed.
C33_Witness ==
    /\ Len(queue) > 0
    /\ active = concurrency
    /\ tstats.executed > 0
    /\ tstats.failures > 0

\* C34: no fn run by a limiter submits to that limiter and awaits the result,
\* so a limiter with every slot busy drains: its slots and its queue empty out
\* and every accepted task settles.
C34_BusyThrottleDrains ==
    /\ (active = concurrency) ~> (active = 0 /\ Len(queue) = 0)
    /\ \A t \in Tasks : (promise[t].st = "pending") ~> (promise[t].st # "pending")

\* Every slot was busy with tasks waiting behind, and the limiter has drained.
C34_Witness ==
    /\ active = 0
    /\ Len(queue) = 0
    /\ nextTask = MaxTasks
    /\ \E t \in Tasks : HasWaited(t) /\ promise[t].st = "resolved"
    /\ \A t \in Tasks : FnSubmits(t) = {}

\* C35: the execute calls made so far are counted once each: their number is
\* executed + failures + the tasks rejected by abort + the tasks holding a
\* slot + the tasks waiting, and active is never negative.
C35_EveryTaskCountedOnce ==
    /\ nextTask = tstats.executed + tstats.failures
                  + Cardinality({t \in Submitted : IsAborted(t)})
                  + active + Len(queue)
    /\ active >= 0

\* A queue-full rejection counted as a failure, a task rejected by abort, and
\* later tasks holding a slot and waiting, all at once.
C35_Witness ==
    /\ tstats.failures > 0
    /\ \E t \in Submitted : IsQueueFullRejected(t)
    /\ \E t \in Submitted : IsAborted(t)
    /\ active > 0
    /\ Len(queue) > 0

HistogramTotal(h) == SumSeq([i \in 1..Len(h) |-> h[i].count])
GetCalls == cstats.hits + cstats.misses

\* C36: after any sequence of set, get, del and clear the value map, the
\* access-order list and the priority map hold the same keys, each once; the
\* priority histogram of stats() sums to the reported size; and hits + misses
\* counts the get calls since the last clear: a get adds one, a clear resets
\* it, nothing else changes it.
C36_CacheStructuresAgree ==
    /\ [](/\ CacheKeys(cache) = Range(order)
          /\ CacheKeys(priorities) = Range(order)
          /\ NoRepeat(order)
          /\ Len(cache) = Len(order)
          /\ Len(priorities) = Len(order)
          /\ HistogramTotal(CacheStats.priorityDistribution) = CacheStats.size)
    /\ [][/\ \A key \in Keys : Get(key) => GetCalls' = GetCalls + 1
          /\ Clear => GetCalls' = 0
          /\ (~Clear /\ \A key \in Keys : ~Get(key)) => cstats' = cstats]_vars

\* Two entries of different priorities are held after a hit and a miss.
C36_Witness ==
    /\ Len(cache) = 2
    /\ Len(CacheStats.priorityDistribution) = 2
    /\ cstats.hits = 1
    /\ cstats.misses = 1
    /\ clast.op = "get"

\* The entries of the response that follow the seeds.
NonSeedEntries == {k \in 1..Len(res.tracks) : k > Len(seedTracks)}
\* A candidate whose adjusted similarity is 50 or less was mined.
MinedBelowFilter ==
    \E i \in 1..Len(mined) : \E m \in BOOLEAN : NewSim(mined[i], m) <= 50

\* C37: every similarity stored on a candidate, at any stage, is an integer of
\* 0..100, and every non-seed track of the final list shows an integer
\* similarity s with 50 < s <= 100.
C37_SimilarityRanges ==
    /\ \A i \in 1..Len(candidateTracks) : candidateTracks[i].similarity \in 0..100
    /\ \A i \in 1..Len(mined) : mined[i].similarity \in 0..100
    /\ \A i \in 1..Len(finalSelection) : finalSelection[i].similarity \in 0..100
    /\ (pc = "done" /\ res.status = 200) =>
          \A k \in NonSeedEntries : res.tracks[k].similarity \in 51..100

\* A response with non-seed tracks after the filter dropped a candidate
\* whose adjusted similarity was 50 or less.
C37_Witness ==
    /\ pc = "done"
    /\ res.status = 200
    /\ NonSeedEntries # {}
    /\ seedTracks # <<>>
    /\ MinedBelowFilter
    /\ Len(candidateTracks) < Len(DedupByUri(mined))

\* The subgroups holding seed uri.
GroupsOfSeed(gs, uri) == {k \in 1..Len(gs) : uri \in Range(gs[k].seedIds)}

\* C38: detectVibeSubgroupsByMetadata puts every seed in exactly one subgroup,
\* the one keyed by the (mood, subMood) of the seed: the seedIds lists
\* partition the seeds, the weight of a subgroup is its seed count over the
\* number of seeds, the weights sum to 1, and a seed whose tag lookup failed
\* is in the neutral subgroup.
C38_SubgroupsPartitionSeeds ==
    ("lookups" \in DOMAIN args /\ result # <<>>) =>
        LET gs == result[1]
            seeds == args.seedTracks
        IN /\ \A i \in 1..Len(seeds) :
                 /\ Cardinality(GroupsOfSeed(gs, seeds[i])) = 1
                 /\ \A k \in GroupsOfSeed(gs, seeds[i]) :
                       gs[k].id = <<SeedVibe(seeds[i], args.lookups[i]).mood,
                                    SeedVibe(seeds[i], args.lookups[i]).subMood>>
                 /\ args.lookups[i] # "tags" =>
                       \A k \in GroupsOfSeed(gs, seeds[i]) :
                          gs[k].id = <<"neutral", NoSubMood>>
           /\ \A k \in 1..Len(gs) :
                 /\ NoRepeat(gs[k].seedIds)
                 /\ Range(gs[k].seedIds) \subseteq Range(seeds)
                 /\ gs[k].id = <<gs[k].mood, gs[k].subMood>>
                 /\ gs[k].weight * Len(seeds) = Len(gs[k].seedIds) * gs[k].total
           /\ \A k, l \in 1..Len(gs) : k # l => gs[k].id # gs[l].id
           /\ \A k \in 1..Len(gs) :
                 SumSeq([l \in 1..Len(gs) |-> gs[l].weight]) = gs[k].total

\* Three seeds in three subgroups, one of them neutral after a failed lookup.
C38_Witness ==
    /\ "lookups" \in DOMAIN args
    /\ result # <<>>
    /\ Len(args.seedTracks) = 3
    /\ Len(result[1]) = 3
    /\ \E i \in 1..3 : args.lookups[i] = "empty"
    /\ \E k \in 1..3 : result[1][k].id = <<"neutral", NoSubMood>>

\* The moods of the profiles returned so far.
ReturnedMoods == {result[i].vibe.mood : i \in 1..Len(result)}

\* C39: inferVibe returns one of the moods melancholic, party, chill and
\* neutral, never upbeat or aggressive; subMood is dark or intimate for
\* melancholic, energetic or groovy for party, and null for chill and neutral.
C39_MoodsAndSubMoods ==
    "added" \in DOMAIN args =>
        \A i \in 1..Len(result) :
           LET v == result[i].vibe
           IN /\ v.mood \in {"melancholic", "party", "chill", "neutral"}
              /\ v.mood \notin {"upbeat", "aggressive"}
              /\ v.mood = "melancholic" => v.subMood \in {"dark", "intimate"}
              /\ v.mood = "party" => v.subMood \in {"energetic", "groovy"}
              /\ v.mood \in {"chill", "neutral"} => v.subMood = NoSubMood
              /\ v.subMood # NoSubMood => v.mood \in {"melancholic", "party"}

\* Two calls returned a party profile with its subMood and a profile without
\* one.
C39_Witness ==
    /\ "added" \in DOMAIN args
    /\ Len(result) = 2
    /\ "party" \in ReturnedMoods
    /\ ReturnedMoods \cap {"chill", "neutral"} # {}
    /\ \E i \in 1..Len(result) :
          result[i].vibe.mood = "party" /\ result[i].vibe.subMood = "groovy"

====
